---------------------------- MODULE Spec2Model ----------------------------
(***************************************************************************)
(* A model of the loguru logging engine (src/loguru.hpp): the verbosity    *)
(* filter of the logging macros, the callback registry s_callbacks, the    *)
(* recursive mutex s_mutex, the dispatch in log_message, scopes            *)
(* (LogScopeRAII) and their timing, the fatal path (log_and_abort), log    *)
(* files (add_file), the level column of the preamble,                     *)
(* prettify_stacktrace, the rendering of stack traces (stacktrace) and the *)
(* command line (init, parse_args).                                        *)
(*                                                                         *)
(* Each application thread is a call stack of frames.  A frame records the *)
(* function being executed and the position (pc) in its code.  Callbacks   *)
(* and close hooks are user code: they may issue one further LOG_F call    *)
(* (the documented use: a file sink reporting its own I/O error) and then  *)
(* return; they do not call add_callback / remove_callback, which the      *)
(* range-for of log_message does not allow.                                *)
(*                                                                         *)
(* trace is the sequence of observable events of the process, in the order *)
(* they happen: stream writes, callback invocations, close-hook            *)
(* invocations, registry updates, returns of log_message, the fatal        *)
(* handler and abort().  messages is the sequence of the Message records   *)
(* built so far; a message's id is its index.                              *)
(***************************************************************************)
EXTENDS Integers, Sequences, FiniteSets, TLC

\* ------------------------------------------------------------------------
\* Bounds of the model

\* top-level calls (of all threads together) in one run
MaxCalls == 3
\* log calls a callback or close hook may nest inside a dispatch
MaxNest == 1
\* pieces a text handed to prettify_stacktrace is made of
MaxChunks == 6
\* pieces of a text the loops over REPLACE_LIST are followed on
MaxPieces == 4
\* arguments after the program's name
MaxArgs == 3
\* ticks of the clock in one run
MaxClock == 3
\* frames the stack of a thread has room for
MaxStack == 6

\* application threads; NoThread is the owner of a free mutex
Threads == {1, 2}
NoThread == 0

\* ------------------------------------------------------------------------
\* enum NamedVerbosity

FATAL == -3
ERROR == -2
WARNING == -1
INFO == 0
MAX == 9

NamedVerbosity == {FATAL, ERROR, WARNING, INFO, MAX}

\* ids and cutoffs handed to add_callback; handlers handed to set_fatal_handler
Ids == {"a", "b"}
Cutoffs == {ERROR, MAX}
FatalHandlers == {"null", "custom"}

\* cutoffs of the sinks that report: one that lets the sink's own report
\* through and one that does not
ReporterCutoffs == {FATAL, ERROR}

\* severities of the scopes opened where two threads interleave: one that
\* passes the initial threshold and one that does not
ScopeVerbosity == {INFO, MAX}

\* severities of the calls whose format may fail, and the thresholds set
\* before them
FormatVerbosity == {ERROR, INFO}
ThresholdVerbosity == {FATAL, MAX}

\* every severity from FATAL to MAX
Verbosities == FATAL..MAX

Min(a, b) == IF a <= b THEN a ELSE b

VARIABLES
    g_verbosity,      \* int g_verbosity
    s_mutex,          \* std::recursive_mutex: [owner, count]
    s_callbacks,      \* CallbackVec, in registration order
    s_fatal_handler,  \* "abort" (::abort), "null" or "custom"
    s_indentation,    \* std::atomic<int>
    stack,            \* stack[t]: the call stack of thread t, innermost frame last
    scopes,           \* scopes[t]: the live LogScopeRAII objects of thread t
    messages,         \* every Message built so far
    trace,            \* observable events in order
    last,             \* last[t]: the last top-level call of thread t and its result
    alive,            \* FALSE once the process has terminated
    ncalls,           \* top-level calls made so far
    nextUid,          \* registrations made so far + 1
    dirs,             \* the directories that exist, as character sequences
    files,            \* files[k]: the file behind the k-th FILE* fopen returned
    text,             \* the text handed to prettify_stacktrace and its results
    now,              \* the clock now_ns() reads
    capture,          \* the call stack stacktrace() is called on and its result
    cmdline           \* argc, argv and the position of init / parse_args in them

vars == <<g_verbosity, s_mutex, s_callbacks, s_fatal_handler, s_indentation,
          stack, scopes, messages, trace, last, alive, ncalls, nextUid,
          dirs, files, text, now, capture, cmdline>>

\* ------------------------------------------------------------------------
\* Records

\* struct Callback; uid numbers the registrations (not a field of the code);
\* callback is "user" for a handler of the application, "file_log" for the
\* handler of a file sink and "reporter" for a handler that reports with a
\* LOG_F(ERROR, ...) each time it is invoked; close is whether the close
\* handler is set
Callback(uid, id, callback, user_data, verbosity, close) ==
    [uid |-> uid, id |-> id, callback |-> callback, user_data |-> user_data,
     verbosity |-> verbosity, close |-> close]

\* an indentation with no cap
indentation_uncapped(depth) == 4 * depth

\* indentation(depth): the number of characters of the indentation string
indentation(depth) == 4 * Min(depth, 100)

\* ------------------------------------------------------------------------
\* print_preamble: the level column.  A text is a sequence of characters.

DigitChar == <<"0", "1", "2", "3", "4", "5", "6", "7", "8", "9">>

RECURSIVE Digits(_)
\* the decimal digits of n >= 0
Digits(n) == IF n < 10 THEN <<DigitChar[n + 1]>>
             ELSE Append(Digits(n \div 10), DigitChar[(n % 10) + 1])

RECURSIVE Blanks(_)
Blanks(n) == IF n <= 0 THEN <<>> ELSE <<" ">> \o Blanks(n - 1)

\* a field of minimum width w, its content at the right
RightJustify(str, w) == Blanks(w - Len(str)) \o str

\* a field of minimum width w, its content at the left
LeftJustify(str, w) == str \o Blanks(w - Len(str))

\* snprintf writes at most size - 1 characters
Snprintf(size, str) == SubSeq(str, 1, Min(Len(str), size - 1))

\* the conversion with the - flag: "%-4d"
Format_4d_left(v) ==
    LeftJustify((IF v < 0 THEN <<"-">> ELSE <<>>) \o Digits(IF v < 0 THEN -v ELSE v), 4)

\* the conversion "% 4d": a blank where a sign would be, minimum width 4
Format_4d(v) ==
    RightJustify((IF v < 0 THEN <<"-">> ELSE <<" ">>) \o Digits(IF v < 0 THEN -v ELSE v), 4)

\* level_buff as print_preamble fills it
level_buff(verbosity) ==
    IF verbosity <= FATAL THEN <<"F", "A", "T", "L">>
    ELSE IF verbosity = ERROR THEN <<"E", "R", "R">>
    ELSE IF verbosity = WARNING THEN <<"W", "A", "R", "N">>
    ELSE Snprintf(6 - 1, Format_4d(verbosity))

\* the level column of the preamble print_preamble writes: "%4s" of level_buff
print_preamble(verbosity) == RightJustify(level_buff(verbosity), 4)

\* struct Message (preamble: whether a preamble was printed, level: its level
\* column, time: the time it shows; args: the values formatted into the
\* body; thr: the caller)
Message(verbosity, preamble, indent, prefix, body, args, thr) ==
    [verbosity |-> verbosity, preamble |-> preamble,
     level |-> IF preamble THEN print_preamble(verbosity) ELSE <<>>,
     time |-> IF preamble THEN now ELSE 0,
     indentation |-> indent,
     prefix |-> prefix, message |-> body, args |-> args, thr |-> thr]

\* a stack frame: the function, the position in it, and its locals (msg: the
\* message it handles or logged; idx: the loop index of log_message, the
\* iterator of remove_callback, the FILE* of add_file; id: the id of
\* remove_callback, the format of log_and_abort, the path of add_file;
\* st: whether log_and_abort got a stack trace, for remove_callback the
\* length of trace when it was called, for add_file its other locals, for
\* LogScopeRAII its _start_time_ns)
Frame(fn, pc, msg, idx, id, st) ==
    [fn |-> fn, pc |-> pc, msg |-> msg, idx |-> idx, id |-> id, st |-> st]

Event(k, thr, msg, sev, uid, arg) ==
    [k |-> k, thr |-> thr, msg |-> msg, sev |-> sev, uid |-> uid, arg |-> arg]

\* a top-level call: the operation, its severity argument, its condition
\* argument (LOG_IF_F; for suggest_log_path whether the environment lookup
\* it needs succeeds), g_verbosity at the call, the message it built and
\* its result
CallIf(op, sev, cond, g, msg, ret) ==
    [op |-> op, sev |-> sev, cond |-> cond, g |-> g, msg |-> msg, ret |-> ret]

Call(op, sev, g, msg, ret) == CallIf(op, sev, TRUE, g, msg, ret)

\* ------------------------------------------------------------------------
\* Call stacks

Idle(t) == stack[t] = <<>>
Top(t) == stack[t][Len(stack[t])]
Below(t) == SubSeq(stack[t], 1, Len(stack[t]) - 1)
At(t, fn, pc) == ~Idle(t) /\ Top(t).fn = fn /\ Top(t).pc = pc

\* user code (callback or close hook) frames on the stack of t
Nesting(t) == Cardinality({i \in 1..Len(stack[t]) : stack[t][i].fn \in {"callback", "close"}})

CanCall(t) == alive /\ Idle(t) /\ ncalls < MaxCalls

\* ------------------------------------------------------------------------
\* std::recursive_mutex s_mutex

\* a lock that excludes nobody
Lockable_none(t) == TRUE

\* a std::mutex: the owner itself has to wait too
Lockable_nonrecursive(t) == s_mutex.owner = NoThread

\* lock() returns at once when the mutex is free or owned by the caller
Lockable(t) == s_mutex.owner = NoThread \/ s_mutex.owner = t

Locked(t) == [owner |-> t, count |-> s_mutex.count + 1]

Unlocked == IF s_mutex.count <= 1
            THEN [owner |-> NoThread, count |-> 0]
            ELSE [owner |-> s_mutex.owner, count |-> s_mutex.count - 1]


\* ------------------------------------------------------------------------
\* Dispatch: log_to_everywhere, log_message

NextMsgId == Len(messages) + 1

\* the test with < for <=
Stream_strict(verbosity) == IF verbosity < WARNING THEN "stderr" ELSE "stdout"

\* the FILE* log_message writes to
Stream(verbosity) == IF verbosity <= WARNING THEN "stderr" ELSE "stdout"

\* the loop's test with < for <=
Eligible_strict(verbosity, p) == verbosity < p.verbosity

\* the loop's test with its operands exchanged
Eligible_reversed(verbosity, p) == p.verbosity <= verbosity

\* the test of log_message's loop: is the message passed to callback p
Eligible(verbosity, p) == verbosity <= p.verbosity

\* the guard with < for >
Filtered_inverted(verbosity) == verbosity < g_verbosity

\* the guard of VLOG_F, RAW_VLOG_F and VLOG_IF_F: the call is skipped
Filtered(verbosity) == verbosity > g_verbosity

\* severities user code (callbacks, close hooks) logs at, with LOG_F
HookVerbosity == {ERROR}

\* format strings handed to the logging calls: one that formats, and one
\* with a conversion that fails (%ls of an invalid wide string)
Formats == {"user", "%ls"}

\* the result of vasprintf / vsnprintf: negative when the conversion fails
vasprintf(format) == IF format = "%ls" THEN -1 ELSE 1

\* a Message built with no prefix, whatever the caller passes
DoLogWith_noprefix(t, verbosity, preamble, prefix, body, args, base) ==
    /\ messages' = Append(messages,
            Message(verbosity, preamble,
                    IF preamble THEN indentation(s_indentation) ELSE 0,
                    "", body, args, t))
    /\ stack' = [stack EXCEPT ![t] =
            Append(base, Frame("log_message", "lock", NextMsgId, 0, "", FALSE))]

\* log_to_everywhere / raw_log: build the Message, then call log_message;
\* base is the caller's stack with the caller's pc already advanced; args
\* are the values the caller formatted into body
DoLogWith(t, verbosity, preamble, prefix, body, args, base) ==
    /\ messages' = Append(messages,
            Message(verbosity, preamble,
                    IF preamble THEN indentation(s_indentation) ELSE 0,
                    prefix, body, args, t))
    /\ stack' = [stack EXCEPT ![t] =
            Append(base, Frame("log_message", "lock", NextMsgId, 0, "", FALSE))]

\* the same for a body with no values to show
DoLog(t, verbosity, preamble, prefix, body, base) ==
    DoLogWith(t, verbosity, preamble, prefix, body, <<>>, base)

\* VLOG_F(verbosity, ...) in the code of the library or of a hook, with a
\* literal format that formats to body
DoVLOG_F(t, verbosity, body, base) ==
    IF Filtered(verbosity)
    THEN stack' = [stack EXCEPT ![t] = base] /\ UNCHANGED messages
    ELSE DoLog(t, verbosity, TRUE, "", body, base)

\* the id of the message a VLOG_F at this verbosity would build now, else 0
VLogMsgId(verbosity) == IF Filtered(verbosity) THEN 0 ELSE NextMsgId

\* log_and_abort is entered (st: stacktrace() returned a non-empty text):
\* if so LOG_F(ERROR, "Stack trace:\n%s", st); the rest follows in AbortFatal
DoLogAndAbort(t, st, format, base) ==
    LET f == Frame("log_and_abort", "fatal",
                   IF st THEN VLogMsgId(ERROR) ELSE 0, 0, format, st)
    IN IF st /\ ~Filtered(ERROR)
       THEN DoLogWith(t, ERROR, TRUE, "", "Stack trace:\n%s", <<"st">>, Append(base, f))
       ELSE stack' = [stack EXCEPT ![t] = Append(base, f)] /\ UNCHANGED messages

\* a CHECK_F of the library has failed: log_and_abort with the text of the
\* check, whatever stack trace there is
DoCheckFailed(t, format, base) ==
    \E st \in BOOLEAN : DoLogAndAbort(t, st, format, base)

\* a log_to_everywhere_v that passes no prefix on
DoLogV_noprefix(t, verbosity, prefix, format, base) ==
    IF vasprintf(format) >= 0
    THEN DoLog(t, verbosity, TRUE, "", format, base)
    ELSE DoCheckFailed(t, "Bad string format: '%s'", base)

\* log_to_everywhere_v: strprintfv, whose CHECK_F(result >= 0, ...) stops
\* the process before anything is built; then log_to_everywhere
DoLogV(t, verbosity, prefix, format, base) ==
    IF vasprintf(format) >= 0
    THEN DoLog(t, verbosity, TRUE, prefix, format, base)
    ELSE DoCheckFailed(t, "Bad string format: '%s'", base)

\* raw_log: strprintfv, then a Message with no preamble and no indentation
DoRawLog(t, verbosity, format, base) ==
    IF vasprintf(format) >= 0
    THEN DoLog(t, verbosity, FALSE, "", format, base)
    ELSE DoCheckFailed(t, "Bad string format: '%s'", base)

\* the id of the message loguru::log / raw_log builds from format, else 0
LogMsgId(format) == IF vasprintf(format) >= 0 THEN NextMsgId ELSE 0

\* log_message: take the lock, write the line to stderr / stdout
LogMessageLock(t) ==
    /\ alive
    /\ At(t, "log_message", "lock")
    /\ Lockable(t)
    /\ LET f == Top(t)
           v == messages[f.msg].verbosity
       IN /\ s_mutex' = Locked(t)
          /\ trace' = Append(trace, Event("write", t, f.msg, v, 0, Stream(v)))
          /\ stack' = [stack EXCEPT ![t] =
                 Append(Below(t), [f EXCEPT !.pc = "loop", !.idx = 1])]
    /\ UNCHANGED <<g_verbosity, s_callbacks, s_fatal_handler, s_indentation,
                   scopes, messages, last, alive, ncalls, nextUid>>
    /\ UNCHANGED <<dirs, files, text, now, capture, cmdline>>

\* the entries the loop of log_message has still to pass the message to
Remaining(f) ==
    {i \in f.idx..Len(s_callbacks) :
        Eligible(messages[f.msg].verbosity, s_callbacks[i])}

SetMin(S) == CHOOSE x \in S : \A y \in S : x <= y

\* the FILE* of the k-th fopen (the user_data of a file sink), and back
FilePtr(k) == 200 + k
FileOf(user_data) == user_data - 200

\* a line of a log file: a header line (val: the number it shows, if any)
\* or the line of message val
Line(kind, val) == [kind |-> kind, val |-> val]

\* log_message: the loop reaches the next eligible entry and invokes its
\* callback: file_log, which prints the message to its file, or a handler
\* of the application, which returns, or first issues a LOG_F of its own
LogMessageInvoke(t) ==
    /\ alive
    /\ At(t, "log_message", "loop")
    /\ Remaining(Top(t)) /= {}
    /\ s_callbacks[SetMin(Remaining(Top(t)))].callback /= "reporter"
    /\ LET f == Top(t)
           i == SetMin(Remaining(f))
           p == s_callbacks[i]
           g == [f EXCEPT !.idx = i + 1]
       IN /\ trace' = Append(trace,
                 Event("callback", t, f.msg, messages[f.msg].verbosity, p.uid, p.user_data))
          /\ IF p.callback = "file_log"
             THEN /\ files' = [files EXCEPT ![FileOf(p.user_data)].lines =
                         Append(@, Line("message", f.msg))]
                  /\ stack' = [stack EXCEPT ![t] = Append(Below(t), g)]
                  /\ UNCHANGED messages
             ELSE /\ \/ /\ stack' = [stack EXCEPT ![t] = Append(Below(t), g)]
                        /\ UNCHANGED messages
                     \/ /\ Nesting(t) < MaxNest
                        /\ \E v \in HookVerbosity :
                             DoVLOG_F(t, v, "user",
                                 Append(Append(Below(t), g),
                                        Frame("callback", "ret", f.msg, p.uid, p.id, FALSE)))
                  /\ UNCHANGED files
    /\ UNCHANGED <<g_verbosity, s_mutex, s_callbacks, s_fatal_handler, s_indentation,
                   scopes, last, alive, ncalls, nextUid>>
    /\ UNCHANGED <<dirs, text, now, capture, cmdline>>

\* log_message: the next eligible entry is a reporter; its callback is
\* invoked and issues its LOG_F(ERROR, ...), for which the stack needs two
\* more frames; when the stack has no room left the process dies
LogMessageInvokeReporter(t) ==
    /\ alive
    /\ At(t, "log_message", "loop")
    /\ Remaining(Top(t)) /= {}
    /\ s_callbacks[SetMin(Remaining(Top(t)))].callback = "reporter"
    /\ LET f == Top(t)
           i == SetMin(Remaining(f))
           p == s_callbacks[i]
           g == [f EXCEPT !.idx = i + 1]
           invoked == Event("callback", t, f.msg, messages[f.msg].verbosity,
                            p.uid, p.user_data)
       IN IF Len(stack[t]) + 2 <= MaxStack
          THEN /\ trace' = Append(trace, invoked)
               /\ DoVLOG_F(t, ERROR, "user",
                      Append(Append(Below(t), g),
                             Frame("callback", "ret", f.msg, p.uid, p.id, FALSE)))
               /\ UNCHANGED alive
          ELSE /\ trace' = trace \o <<invoked, Event("SIGSEGV", t, f.msg, 0, p.uid, "")>>
               /\ alive' = FALSE
               /\ UNCHANGED <<stack, messages>>
    /\ UNCHANGED <<g_verbosity, s_mutex, s_callbacks, s_fatal_handler, s_indentation,
                   scopes, last, ncalls, nextUid, dirs, files, text, now, capture, cmdline>>

\* a callback or close hook that has logged returns to its caller
HookReturn(t) ==
    /\ alive
    /\ ~Idle(t)
    /\ Top(t).fn \in {"callback", "close"}
    /\ stack' = [stack EXCEPT ![t] = Below(t)]
    /\ UNCHANGED <<g_verbosity, s_mutex, s_callbacks, s_fatal_handler, s_indentation,
                   scopes, messages, trace, last, alive, ncalls, nextUid>>
    /\ UNCHANGED <<dirs, files, text, now, capture, cmdline>>

\* log_message: the loop is over, the lock_guard releases the lock
LogMessageReturn(t) ==
    /\ alive
    /\ At(t, "log_message", "loop")
    /\ Remaining(Top(t)) = {}
    /\ s_mutex' = Unlocked
    /\ trace' = Append(trace,
           Event("return", t, Top(t).msg, messages[Top(t).msg].verbosity, 0, ""))
    /\ stack' = [stack EXCEPT ![t] = Below(t)]
    /\ UNCHANGED <<g_verbosity, s_callbacks, s_fatal_handler, s_indentation,
                   scopes, messages, last, alive, ncalls, nextUid>>
    /\ UNCHANGED <<dirs, files, text, now, capture, cmdline>>

\* ------------------------------------------------------------------------
\* Logging entry points called by the application

\* VLOG_F / LOG_F
VLOG_F(t, verbosity, format) ==
    /\ CanCall(t)
    /\ IF Filtered(verbosity)
       THEN UNCHANGED <<stack, messages>>
       ELSE DoLogV(t, verbosity, "", format, <<>>)
    /\ last' = [last EXCEPT ![t] =
           Call("VLOG_F", verbosity, g_verbosity,
                IF Filtered(verbosity) THEN 0 ELSE LogMsgId(format), "void")]
    /\ ncalls' = ncalls + 1
    /\ UNCHANGED <<g_verbosity, s_mutex, s_callbacks, s_fatal_handler, s_indentation,
                   scopes, trace, alive, nextUid>>
    /\ UNCHANGED <<dirs, files, text, now, capture, cmdline>>

\* RAW_VLOG_F / RAW_LOG_F
RAW_VLOG_F(t, verbosity, format) ==
    /\ CanCall(t)
    /\ IF Filtered(verbosity)
       THEN UNCHANGED <<stack, messages>>
       ELSE DoRawLog(t, verbosity, format, <<>>)
    /\ last' = [last EXCEPT ![t] =
           Call("RAW_VLOG_F", verbosity, g_verbosity,
                IF Filtered(verbosity) THEN 0 ELSE LogMsgId(format), "void")]
    /\ ncalls' = ncalls + 1
    /\ UNCHANGED <<g_verbosity, s_mutex, s_callbacks, s_fatal_handler, s_indentation,
                   scopes, trace, alive, nextUid>>
    /\ UNCHANGED <<dirs, files, text, now, capture, cmdline>>

\* loguru::log called directly
log(t, verbosity, format) ==
    /\ CanCall(t)
    /\ DoLogV(t, verbosity, "", format, <<>>)
    /\ last' = [last EXCEPT ![t] =
           Call("log", verbosity, g_verbosity, LogMsgId(format), "void")]
    /\ ncalls' = ncalls + 1
    /\ UNCHANGED <<g_verbosity, s_mutex, s_callbacks, s_fatal_handler, s_indentation,
                   scopes, trace, alive, nextUid>>
    /\ UNCHANGED <<dirs, files, text, now, capture, cmdline>>

\* loguru::raw_log called directly
raw_log(t, verbosity, format) ==
    /\ CanCall(t)
    /\ DoRawLog(t, verbosity, format, <<>>)
    /\ last' = [last EXCEPT ![t] =
           Call("raw_log", verbosity, g_verbosity, LogMsgId(format), "void")]
    /\ ncalls' = ncalls + 1
    /\ UNCHANGED <<g_verbosity, s_mutex, s_callbacks, s_fatal_handler, s_indentation,
                   scopes, trace, alive, nextUid>>
    /\ UNCHANGED <<dirs, files, text, now, capture, cmdline>>

\* ------------------------------------------------------------------------
\* The registry: add_callback, remove_callback

\* the pointer the caller passes as user_data of its uid-th registration
UserData(uid) == 100 + uid

\* a registry with unique ids: an entry with the same id is replaced
PushBack_unique(cbs, p) ==
    IF \E i \in 1..Len(cbs) : cbs[i].id = p.id
    THEN [i \in 1..Len(cbs) |-> IF cbs[i].id = p.id THEN p ELSE cbs[i]]
    ELSE Append(cbs, p)

\* s_callbacks.push_back(p)
PushBack(cbs, p) == Append(cbs, p)

\* add_callback: lock, push_back, unlock
add_callback(t, id, verbosity, on_close) ==
    /\ CanCall(t)
    /\ Lockable(t)
    /\ s_callbacks' = PushBack(s_callbacks,
           Callback(nextUid, id, "user", UserData(nextUid), verbosity, on_close))
    /\ trace' = Append(trace,
           Event("push_back", t, 0, verbosity, nextUid,
                 Callback(nextUid, id, "user", UserData(nextUid), verbosity, on_close)))
    /\ nextUid' = nextUid + 1
    /\ last' = [last EXCEPT ![t] = Call("add_callback", verbosity, g_verbosity, 0, "void")]
    /\ ncalls' = ncalls + 1
    /\ UNCHANGED <<g_verbosity, s_mutex, s_fatal_handler, s_indentation,
                   stack, scopes, messages, alive>>
    /\ UNCHANGED <<dirs, files, text, now, capture, cmdline>>

\* add_callback with a handler that reports each invocation at ERROR
add_reporter(t, id, verbosity) ==
    /\ CanCall(t)
    /\ Lockable(t)
    /\ s_callbacks' = PushBack(s_callbacks,
           Callback(nextUid, id, "reporter", UserData(nextUid), verbosity, FALSE))
    /\ trace' = Append(trace,
           Event("push_back", t, 0, verbosity, nextUid,
                 Callback(nextUid, id, "reporter", UserData(nextUid), verbosity, FALSE)))
    /\ nextUid' = nextUid + 1
    /\ last' = [last EXCEPT ![t] = Call("add_callback", verbosity, g_verbosity, 0, "void")]
    /\ ncalls' = ncalls + 1
    /\ UNCHANGED <<g_verbosity, s_mutex, s_fatal_handler, s_indentation,
                   stack, scopes, messages, alive>>
    /\ UNCHANGED <<dirs, files, text, now, capture, cmdline>>

SetMax(S) == CHOOSE x \in S : \A y \in S : x >= y

\* a search that returns the last match
FindIf_last(cbs, id) ==
    IF \E i \in 1..Len(cbs) : cbs[i].id = id
    THEN SetMax({i \in 1..Len(cbs) : cbs[i].id = id})
    ELSE 0

\* std::find_if over s_callbacks: the first index whose id matches, 0 for end()
FindIf(cbs, id) ==
    IF \E i \in 1..Len(cbs) : cbs[i].id = id
    THEN SetMin({i \in 1..Len(cbs) : cbs[i].id = id})
    ELSE 0

\* an erase of the last entry, whatever the iterator
Erase_last(cbs, it) == SubSeq(cbs, 1, Len(cbs) - 1)

\* s_callbacks.erase(it)
Erase(cbs, it) == SubSeq(cbs, 1, it - 1) \o SubSeq(cbs, it + 1, Len(cbs))

\* remove_callback: lock, find_if; when found call the close hook
\* (file_close, which closes the file, or a hook of the application, which
\* returns, or first issues a LOG_F of its own); when not found LOG_F(ERROR)
remove_callback(t, id) ==
    /\ CanCall(t)
    /\ Lockable(t)
    /\ s_mutex' = Locked(t)
    /\ LET it == FindIf(s_callbacks, id)
           after == Frame("remove_callback", "erase", 0, it, id, Len(trace))
       IN IF it /= 0
          THEN IF s_callbacks[it].close
               THEN /\ trace' = Append(trace,
                         Event("close", t, 0, 0, s_callbacks[it].uid,
                               s_callbacks[it].user_data))
                    /\ IF s_callbacks[it].callback = "file_log"
                       THEN /\ files' = [files EXCEPT
                                   ![FileOf(s_callbacks[it].user_data)].open = FALSE]
                            /\ stack' = [stack EXCEPT ![t] = <<after>>]
                            /\ UNCHANGED messages
                       ELSE /\ \/ stack' = [stack EXCEPT ![t] = <<after>>] /\ UNCHANGED messages
                               \/ /\ Nesting(t) < MaxNest
                                  /\ \E v \in HookVerbosity :
                                       DoVLOG_F(t, v, "user",
                                           <<after, Frame("close", "ret", 0,
                                                    s_callbacks[it].uid, id, FALSE)>>)
                            /\ UNCHANGED files
               ELSE /\ stack' = [stack EXCEPT ![t] = <<after>>]
                    /\ UNCHANGED <<messages, trace, files>>
          ELSE /\ DoVLOG_F(t, ERROR, "Failed to locate callback",
                      <<Frame("remove_callback", "unlock", VLogMsgId(ERROR), 0, id,
                              Len(trace))>>)
               /\ UNCHANGED <<trace, files>>
    /\ last' = [last EXCEPT ![t] = Call("remove_callback", 0, g_verbosity, 0, "void")]
    /\ ncalls' = ncalls + 1
    /\ UNCHANGED <<g_verbosity, s_callbacks, s_fatal_handler, s_indentation,
                   scopes, alive, nextUid>>
    /\ UNCHANGED <<dirs, text, now, capture, cmdline>>

\* remove_callback: the close hook has returned; erase the entry, unlock
RemoveErase(t) ==
    /\ alive
    /\ At(t, "remove_callback", "erase")
    /\ s_callbacks' = Erase(s_callbacks, Top(t).idx)
    /\ trace' = Append(trace,
           Event("erase", t, 0, 0, s_callbacks[Top(t).idx].uid, s_callbacks[Top(t).idx]))
    /\ s_mutex' = Unlocked
    /\ stack' = [stack EXCEPT ![t] = Below(t)]
    /\ UNCHANGED <<g_verbosity, s_fatal_handler, s_indentation,
                   scopes, messages, last, alive, ncalls, nextUid>>
    /\ UNCHANGED <<dirs, files, text, now, capture, cmdline>>

\* remove_callback: the id was not found and has been reported; unlock
RemoveNotFound(t) ==
    /\ alive
    /\ At(t, "remove_callback", "unlock")
    /\ s_mutex' = Unlocked
    /\ stack' = [stack EXCEPT ![t] = Below(t)]
    /\ UNCHANGED <<g_verbosity, s_callbacks, s_fatal_handler, s_indentation,
                   scopes, messages, trace, last, alive, ncalls, nextUid>>
    /\ UNCHANGED <<dirs, files, text, now, capture, cmdline>>

\* ------------------------------------------------------------------------
\* The fatal path: set_fatal_handler, log_and_abort

set_fatal_handler(t, handler) ==
    /\ CanCall(t)
    /\ s_fatal_handler' = handler
    /\ last' = [last EXCEPT ![t] = Call("set_fatal_handler", 0, g_verbosity, 0, "void")]
    /\ ncalls' = ncalls + 1
    /\ UNCHANGED <<g_verbosity, s_mutex, s_callbacks, s_indentation,
                   stack, scopes, messages, trace, alive, nextUid>>
    /\ UNCHANGED <<dirs, files, text, now, capture, cmdline>>

\* log_and_abort called by the application (ABORT_F, a failed CHECK_F);
\* st is whether stacktrace() returned a non-empty text
log_and_abort(t, st, format) ==
    /\ CanCall(t)
    /\ DoLogAndAbort(t, st, format, <<>>)
    /\ last' = [last EXCEPT ![t] = Call("log_and_abort", FATAL, g_verbosity, 0, "noreturn")]
    /\ ncalls' = ncalls + 1
    /\ UNCHANGED <<g_verbosity, s_mutex, s_callbacks, s_fatal_handler, s_indentation,
                   scopes, trace, alive, nextUid>>
    /\ UNCHANGED <<dirs, files, text, now, capture, cmdline>>

\* log_and_abort: log_to_everywhere_v(FATAL, file, line, expr, format, vlist)
AbortFatal(t) ==
    /\ alive
    /\ At(t, "log_and_abort", "fatal")
    /\ DoLogV(t, FATAL, "expr", Top(t).id,
           Append(Below(t), [Top(t) EXCEPT !.pc = "handler",
                                           !.idx = LogMsgId(Top(t).id)]))
    /\ UNCHANGED <<g_verbosity, s_mutex, s_callbacks, s_fatal_handler, s_indentation,
                   scopes, trace, last, alive, ncalls, nextUid>>
    /\ UNCHANGED <<dirs, files, text, now, capture, cmdline>>

\* log_and_abort: call s_fatal_handler if it is set, then abort()
AbortExit(t) ==
    /\ alive
    /\ At(t, "log_and_abort", "handler")
    /\ trace' = trace \o
           (IF s_fatal_handler /= "null"
            THEN <<Event("fatal_handler", t, 0, 0, 0, s_fatal_handler)>>
            ELSE <<>>) \o
           <<Event("abort", t, 0, 0, 0, "")>>
    /\ alive' = FALSE
    /\ stack' = [stack EXCEPT ![t] = Append(Below(t), [Top(t) EXCEPT !.pc = "dead"])]
    /\ UNCHANGED <<g_verbosity, s_mutex, s_callbacks, s_fatal_handler, s_indentation,
                   scopes, messages, last, ncalls, nextUid>>
    /\ UNCHANGED <<dirs, files, text, now, capture, cmdline>>

\* ------------------------------------------------------------------------
\* Scopes: LogScopeRAII

\* what _name holds after a vsnprintf that failed
BadNames == {"", "?"}

\* a LogScopeRAII object: _verbosity, whether _file is set, _start_time_ns
\* and _name; entry is the id of its entry message (not a field of the code)
Scope(verbosity, file, start, name, entry) ==
    [verbosity |-> verbosity, file |-> file, start |-> start, name |-> name,
     entry |-> entry]

\* the operands of the subtraction exchanged
Duration_swapped(end, start) == start - end

\* duration_sec: now_ns() - _start_time_ns
Duration(end, start) == end - start

\* the constructor: the member initialisers read the clock; then, when the
\* verbosity passes, format the label into _name (the result of vsnprintf
\* is not looked at) and log the entry message
ScopeEnter(t, verbosity, format) ==
    /\ CanCall(t)
    /\ IF verbosity <= g_verbosity
       THEN /\ \E _name \in (IF vasprintf(format) >= 0 THEN {format} ELSE BadNames) :
                   DoLog(t, verbosity, TRUE, "{ ", _name,
                       <<Frame("LogScopeRAII", "inc", NextMsgId, verbosity, _name, now)>>)
            /\ UNCHANGED scopes
       ELSE /\ scopes' = [scopes EXCEPT ![t] =
                   Append(@, Scope(verbosity, FALSE, now, "", 0))]
            /\ UNCHANGED <<stack, messages>>
    /\ last' = [last EXCEPT ![t] =
           Call("LogScopeRAII", verbosity, g_verbosity,
                IF verbosity <= g_verbosity THEN NextMsgId ELSE 0, "void")]
    /\ ncalls' = ncalls + 1
    /\ UNCHANGED <<g_verbosity, s_mutex, s_callbacks, s_fatal_handler, s_indentation,
                   trace, alive, nextUid>>
    /\ UNCHANGED <<dirs, files, text, now, capture, cmdline>>

\* a destructor that leaves the counter alone
PreDecrement_none(n) == n

\* ++s_indentation and --s_indentation on the std::atomic<int>
PreIncrement(n) == n + 1
PreDecrement(n) == n - 1

\* the constructor, after the entry message: ++s_indentation
ScopeIndent(t) ==
    /\ alive
    /\ At(t, "LogScopeRAII", "inc")
    /\ s_indentation' = PreIncrement(s_indentation)
    /\ scopes' = [scopes EXCEPT ![t] =
           Append(@, Scope(Top(t).idx, TRUE, Top(t).st, Top(t).id, Top(t).msg))]
    /\ stack' = [stack EXCEPT ![t] = Below(t)]
    /\ UNCHANGED <<g_verbosity, s_mutex, s_callbacks, s_fatal_handler,
                   messages, trace, last, alive, ncalls, nextUid>>
    /\ UNCHANGED <<dirs, files, text, now, capture, cmdline>>

\* the destructor of the innermost live scope of t: when _file is set,
\* --s_indentation; the exit message is logged in the next step
ScopeExit(t) ==
    /\ alive
    /\ Idle(t)
    /\ scopes[t] /= <<>>
    /\ LET sc == scopes[t][Len(scopes[t])]
       IN /\ scopes' = [scopes EXCEPT ![t] = SubSeq(@, 1, Len(@) - 1)]
          /\ IF sc.file
             THEN /\ s_indentation' = PreDecrement(s_indentation)
                  /\ stack' = [stack EXCEPT ![t] =
                         <<Frame("~LogScopeRAII", "log", sc.entry, sc.verbosity, sc.name,
                                 sc.start)>>]
             ELSE UNCHANGED <<s_indentation, stack>>
    /\ UNCHANGED <<g_verbosity, s_mutex, s_callbacks, s_fatal_handler,
                   messages, trace, last, alive, ncalls, nextUid>>
    /\ UNCHANGED <<dirs, files, text, now, capture, cmdline>>

\* the destructor, after the decrement: the clock is read again, then
\* log(_verbosity, _file, _line, "} %.*f s: %s", SCOPE_TIME_PRECISION,
\* duration_sec, _name), which no threshold filters
ScopeExitLog(t) ==
    /\ alive
    /\ At(t, "~LogScopeRAII", "log")
    /\ DoLogWith(t, Top(t).idx, TRUE, "", "} %.*f s: %s",
           <<Duration(now, Top(t).st), Top(t).id>>, Below(t))
    /\ UNCHANGED <<g_verbosity, s_mutex, s_callbacks, s_fatal_handler, s_indentation,
                   scopes, trace, last, alive, ncalls, nextUid>>
    /\ UNCHANGED <<dirs, files, text, now, capture, cmdline>>

\* ------------------------------------------------------------------------
\* The clock behind now_ns(): time passes between any two steps

Tick ==
    /\ alive
    /\ now < MaxClock
    /\ now' = now + 1
    /\ UNCHANGED <<g_verbosity, s_mutex, s_callbacks, s_fatal_handler, s_indentation,
                   stack, scopes, messages, trace, last, alive, ncalls, nextUid,
                   dirs, files, text, capture, cmdline>>

\* ------------------------------------------------------------------------
\* g_verbosity is assigned by the application (parse_args, FLAGS_v)

SetVerbosity(t, verbosity) ==
    /\ CanCall(t)
    /\ verbosity /= g_verbosity
    /\ g_verbosity' = verbosity
    /\ last' = [last EXCEPT ![t] = Call("g_verbosity", verbosity, g_verbosity, 0, "void")]
    /\ ncalls' = ncalls + 1
    /\ UNCHANGED <<s_mutex, s_callbacks, s_fatal_handler, s_indentation,
                   stack, scopes, messages, trace, alive, nextUid>>
    /\ UNCHANGED <<dirs, files, text, now, capture, cmdline>>

\* ------------------------------------------------------------------------
\* Conditional logging: VLOG_IF_F, LOG_IF_F

\* a bool where an int is expected
BoolAsInt(b) == IF b THEN 1 ELSE 0

\* VLOG_IF_F(verbosity, cond, ...) in the code of a caller
DoVLOG_IF_F(t, verbosity, cond, format, base) ==
    IF Filtered(verbosity) \/ cond = FALSE
    THEN stack' = [stack EXCEPT ![t] = base] /\ UNCHANGED messages
    ELSE DoLogV(t, verbosity, "", format, base)

\* LOG_IF_F(verbosity_name, cond, ...): the macro hands VLOG_IF_F the
\* comparison (verbosity_name > g_verbosity) as its verbosity
DoLOG_IF_F(t, verbosity_name, cond, format, base) ==
    DoVLOG_IF_F(t, BoolAsInt(verbosity_name > g_verbosity), cond, format, base)

\* the id of the message VLOG_IF_F builds, else 0
VLogIfMsgId(verbosity, cond, format) ==
    IF Filtered(verbosity) \/ cond = FALSE THEN 0 ELSE LogMsgId(format)

VLOG_IF_F(t, verbosity, cond, format) ==
    /\ CanCall(t)
    /\ DoVLOG_IF_F(t, verbosity, cond, format, <<>>)
    /\ last' = [last EXCEPT ![t] =
           CallIf("VLOG_IF_F", verbosity, cond, g_verbosity,
                  VLogIfMsgId(verbosity, cond, format), "void")]
    /\ ncalls' = ncalls + 1
    /\ UNCHANGED <<g_verbosity, s_mutex, s_callbacks, s_fatal_handler, s_indentation,
                   scopes, trace, alive, nextUid, dirs, files, text, now, capture, cmdline>>

LOG_IF_F(t, verbosity_name, cond, format) ==
    /\ CanCall(t)
    /\ DoLOG_IF_F(t, verbosity_name, cond, format, <<>>)
    /\ last' = [last EXCEPT ![t] =
           CallIf("LOG_IF_F", verbosity_name, cond, g_verbosity,
                  VLogIfMsgId(BoolAsInt(verbosity_name > g_verbosity), cond, format),
                  "void")]
    /\ ncalls' = ncalls + 1
    /\ UNCHANGED <<g_verbosity, s_mutex, s_callbacks, s_fatal_handler, s_indentation,
                   scopes, trace, alive, nextUid, dirs, files, text, now, capture, cmdline>>

\* ------------------------------------------------------------------------
\* Log files: mkpath, add_file

\* the paths handed to add_file and the characters of each
Paths == {"a/b/c.log", "c.log", ""}

Chars(path) ==
    CASE path = "a/b/c.log" -> <<"a", "/", "b", "/", "c", ".", "l", "o", "g">>
      [] path = "c.log" -> <<"c", ".", "l", "o", "g">>
      [] OTHER -> <<>>

\* enum FileMode
FileMode == {"Truncate", "Append"}

\* what the file system answers during one add_file: "ok" (nothing is
\* refused), "EACCES" (mkdir of a missing directory is refused), "fopen"
\* (fopen is refused)
Envs == {"ok", "EACCES", "fopen"}

RECURSIVE Strchr(_, _)
\* strchr from position from on: the first position holding '/', 0 for none
Strchr(chars, from) ==
    IF from > Len(chars) THEN 0
    ELSE IF chars[from] = "/" THEN from
    ELSE Strchr(chars, from + 1)

RECURSIVE Strrchr(_, _)
\* the last position up to position to holding '/', 0 for none
Strrchr(chars, to) ==
    IF to < 1 THEN 0
    ELSE IF chars[to] = "/" THEN to
    ELSE Strrchr(chars, to - 1)

\* a loop that starts at the last '/' of the path
MkpathStart_last(chars) == Strrchr(chars, Len(chars))

\* the start of mkpath's loop: strchr(file_path + 1, '/')
MkpathStart(chars) == Strchr(chars, 2)

\* the directory a name lies in exists (the working directory always does)
ParentExists(chars, ds) ==
    LET p == Strrchr(chars, Len(chars))
    IN p <= 1 \/ SubSeq(chars, 1, p - 1) \in ds

\* mkdir(d, 0755): "ok", or the errno it sets
Mkdir(d, ds, env) ==
    IF d \in ds THEN "EEXIST"
    ELSE IF ~ParentExists(d, ds) THEN "ENOENT"
    ELSE IF env = "EACCES" THEN "EACCES"
    ELSE "ok"

RECURSIVE MkpathLoop(_, _, _, _)
\* the loop of mkpath from the '/' at position p on; r is the result so far:
\* the directories that exist, those made, and the errno that stopped it
MkpathLoop(chars, p, r, env) ==
    IF p = 0 THEN r
    ELSE LET d == SubSeq(chars, 1, p - 1)
             e == Mkdir(d, r.dirs, env)
         IN IF e = "ok"
            THEN MkpathLoop(chars, Strchr(chars, p + 1),
                     [r EXCEPT !.dirs = @ \cup {d}, !.made = Append(@, d)], env)
            ELSE IF e = "EEXIST"
            THEN MkpathLoop(chars, Strchr(chars, p + 1), r, env)
            ELSE [r EXCEPT !.ok = FALSE, !.errno = e]

\* mkpath(file_path) on a non-empty path
mkpath(chars, ds, env) ==
    MkpathLoop(chars, MkpathStart(chars),
               [ok |-> TRUE, dirs |-> ds, made |-> <<>>, errno |-> ""], env)

Max(a, b) == IF a >= b THEN a ELSE b

\* add_file: mkpath(path), whose CHECK_F stops the process on an empty
\* path; when mkpath fails its first report (from, before: the length of
\* trace and the directories at the call)
add_file(t, path, mode, verbosity, env) ==
    /\ CanCall(t)
    /\ LET r == mkpath(Chars(path), dirs, env)
           f == Frame("add_file", "fopen", 0, 0, path,
                      [verbosity |-> verbosity, mode |-> mode, env |-> env,
                       errno |-> r.errno, from |-> Len(trace), before |-> dirs,
                       ret |-> FALSE])
       IN IF Chars(path) = <<>>
          THEN /\ DoCheckFailed(t, " ", <<f>>)
               /\ UNCHANGED <<dirs, trace>>
          ELSE /\ dirs' = r.dirs
               /\ trace' = trace \o
                      [i \in 1..Len(r.made) |-> Event("mkdir", t, 0, 0, 0, r.made[i])]
               /\ IF r.ok
                  THEN stack' = [stack EXCEPT ![t] = <<f>>] /\ UNCHANGED messages
                  ELSE DoVLOG_F(t, ERROR, "Failed to create directory '%s'",
                           <<[f EXCEPT !.pc = "mkpath_if"]>>)
    /\ last' = [last EXCEPT ![t] = Call("add_file", verbosity, g_verbosity, 0, "")]
    /\ ncalls' = ncalls + 1
    /\ UNCHANGED <<g_verbosity, s_mutex, s_callbacks, s_fatal_handler, s_indentation,
                   scopes, alive, nextUid, files, text, now, capture, cmdline>>

\* mkpath, after its first report: the five LOG_IF_F(ERROR, errno == E, "E"),
\* of which at most one has a true condition; then mkpath returns false
AddFileErrno(t) ==
    /\ alive
    /\ At(t, "add_file", "mkpath_if")
    /\ DoLOG_IF_F(t, ERROR,
           Top(t).st.errno \in {"EACCES", "ENAMETOOLONG", "ENOENT", "ENOTDIR", "ELOOP"},
           Top(t).st.errno,
           Append(Below(t), [Top(t) EXCEPT !.pc = "mkpath_ret"]))
    /\ UNCHANGED <<g_verbosity, s_mutex, s_callbacks, s_fatal_handler, s_indentation,
                   scopes, trace, last, alive, ncalls, nextUid, dirs, files, text, now, capture, cmdline>>

\* add_file, mkpath has returned false: the second report
AddFileMkpathFailed(t) ==
    /\ alive
    /\ At(t, "add_file", "mkpath_ret")
    /\ DoVLOG_F(t, ERROR, "Failed to create directories to '%s'",
           Append(Below(t), [Top(t) EXCEPT !.pc = "fopen"]))
    /\ UNCHANGED <<g_verbosity, s_mutex, s_callbacks, s_fatal_handler, s_indentation,
                   scopes, trace, last, alive, ncalls, nextUid, dirs, files, text, now, capture, cmdline>>

\* add_file: fopen(path, mode_str); when it fails, the report
AddFileOpen(t) ==
    /\ alive
    /\ At(t, "add_file", "fopen")
    /\ IF Top(t).st.env /= "fopen" /\ ParentExists(Chars(Top(t).id), dirs)
       THEN /\ files' = Append(files,
                   [path |-> Top(t).id, mode |-> Top(t).st.mode, lines |-> <<>>,
                    open |-> TRUE])
            /\ trace' = Append(trace,
                   Event("fopen", t, 0, 0, 0, FilePtr(Len(files) + 1)))
            /\ stack' = [stack EXCEPT ![t] =
                   Append(Below(t), [Top(t) EXCEPT !.pc = "add_callback",
                                                   !.idx = Len(files) + 1])]
            /\ UNCHANGED messages
       ELSE /\ DoVLOG_F(t, ERROR, "Failed to open '%s'",
                   Append(Below(t), [Top(t) EXCEPT !.pc = "ret",
                                                   !.msg = VLogMsgId(ERROR)]))
            /\ UNCHANGED <<files, trace>>
    /\ UNCHANGED <<g_verbosity, s_mutex, s_callbacks, s_fatal_handler, s_indentation,
                   scopes, last, alive, ncalls, nextUid, dirs, text, now, capture, cmdline>>

\* add_file: add_callback(path, file_log, file, verbosity, file_close)
AddFileRegister(t) ==
    /\ alive
    /\ At(t, "add_file", "add_callback")
    /\ Lockable(t)
    /\ LET p == Callback(nextUid, Top(t).id, "file_log", FilePtr(Top(t).idx),
                         Top(t).st.verbosity, TRUE)
       IN /\ s_callbacks' = PushBack(s_callbacks, p)
          /\ trace' = Append(trace,
                 Event("push_back", t, 0, Top(t).st.verbosity, nextUid, p))
    /\ nextUid' = nextUid + 1
    /\ stack' = [stack EXCEPT ![t] = Append(Below(t), [Top(t) EXCEPT !.pc = "header"])]
    /\ UNCHANGED <<g_verbosity, s_mutex, s_fatal_handler, s_indentation,
                   scopes, messages, last, alive, ncalls, dirs, files, text, now, capture, cmdline>>

\* add_file: the three header lines, then LOG_F(INFO, "Logging to ...")
AddFileHeader(t) ==
    /\ alive
    /\ At(t, "add_file", "header")
    /\ files' = [files EXCEPT ![Top(t).idx].lines =
           @ \o <<Line("arguments", 0),
                  Line("Verbosity level", Max(g_verbosity, Top(t).st.verbosity)),
                  Line("PREAMBLE_EXPLAIN", 0)>>]
    /\ DoVLOG_F(t, INFO, "Logging to '%s', mode: '%s', verbosity: %d",
           Append(Below(t), [Top(t) EXCEPT !.pc = "ret", !.st.ret = TRUE]))
    /\ UNCHANGED <<g_verbosity, s_mutex, s_callbacks, s_fatal_handler, s_indentation,
                   scopes, trace, last, alive, ncalls, nextUid, dirs, text, now, capture, cmdline>>

\* add_file returns
AddFileReturn(t) ==
    /\ alive
    /\ At(t, "add_file", "ret")
    /\ last' = [last EXCEPT ![t].ret = IF Top(t).st.ret THEN "true" ELSE "false"]
    /\ stack' = [stack EXCEPT ![t] = Below(t)]
    /\ UNCHANGED <<g_verbosity, s_mutex, s_callbacks, s_fatal_handler, s_indentation,
                   scopes, messages, trace, alive, ncalls, nextUid, dirs, files, text, now, capture, cmdline>>

\* ------------------------------------------------------------------------
\* suggest_log_path, home_dir

\* suggest_log_path(prefix, buff, buff_size): tilde is prefix[0] == '~', home
\* is whether getenv("HOME") is set, fits is whether buff has room for the
\* '/' that is added; each failed CHECK_F stops the process
suggest_log_path(t, tilde, home, fits) ==
    /\ CanCall(t)
    /\ LET f == Frame("suggest_log_path", "home_dir", 0, 0, "", FALSE)
       IN IF tilde /\ ~home
          THEN DoCheckFailed(t, "Missing HOME", <<f>>)
          ELSE IF ~fits
          THEN DoCheckFailed(t, "Filename buffer too small", <<f>>)
          ELSE UNCHANGED <<stack, messages>>
    /\ last' = [last EXCEPT ![t] =
           CallIf("suggest_log_path", 0, tilde => home, g_verbosity, 0, "void")]
    /\ ncalls' = ncalls + 1
    /\ UNCHANGED <<g_verbosity, s_mutex, s_callbacks, s_fatal_handler, s_indentation,
                   scopes, trace, alive, nextUid, dirs, files, text, now, capture, cmdline>>

\* ------------------------------------------------------------------------
\* Stack traces: prettify_stacktrace
\*
\* A text is a sequence of tokens: "x" (any character of a name), " ", ",",
\* "<", ">", and the words the replacements and the regular expressions look
\* for, each as one token.

\* the characters \s matches
Space == {" ", "\n"}

\* the pieces the texts are made of
Chunks ==
    {<<"x">>, <<" ">>, <<"<">>, <<">">>,
     <<",", " ", "std::", "allocator", "<">>,
     <<"std::", "__1::">>,
     <<"__cdecl ">>}

RECURSIVE Flatten(_)
Flatten(ss) == IF ss = <<>> THEN <<>> ELSE Head(ss) \o Flatten(Tail(ss))

\* the texts of at most n pieces
Texts(n) == {Flatten(f) : f \in UNION {[1..k -> Chunks] : k \in 0..n}}

\* type_name<std::string>(), the demangled typeid(std::string).name(), in the
\* builds there are: an instantiation basic_string<char, ...> (one token
\* here) where the name is mangled in full, and std::string itself where it
\* is mangled as the abbreviation Ss (libstdc++ with its old ABI)
LongName == <<"type_name<std::string>">>
TypeNames == {LongName, <<"std::", "string">>}

\* REPLACE_LIST in the build where type_name<std::string>() is name; the
\* names of the other three string types are instantiations in every build
ReplaceListOf(name) ==
    << <<name, (<<"std::", "string">>)>>,
       <<(<<"type_name<std::wstring>">>), (<<"std::", "wstring">>)>>,
       <<(<<"type_name<std::u16string>">>), (<<"std::", "u16string">>)>>,
       <<(<<"type_name<std::u32string>">>), (<<"std::", "u32string">>)>>,
       <<(<<"std::", "__1::">>), (<<"std::">>)>>,
       <<(<<"__thiscall ">>), <<>> >>,
       <<(<<"__cdecl ">>), <<>> >> >>

\* REPLACE_LIST where the names are instantiations
REPLACE_LIST == ReplaceListOf(LongName)

\* output.find(pat), searching from position i: the position, 0 for npos
Find(output, pat, i) ==
    LET at == {j \in i..(Len(output) - Len(pat) + 1) :
                   SubSeq(output, j, j + Len(pat) - 1) = pat}
    IN IF at = {} THEN 0 ELSE SetMin(at)

\* output.replace(it, p.first.size(), p.second)
Replace(output, it, size, by) ==
    SubSeq(output, 1, it - 1) \o by \o SubSeq(output, it + size, Len(output))

RECURSIVE ReplaceLoop(_, _, _)
\* while ((it = output.find(p.first)) != npos) output.replace(it, ..., p.second)
ReplaceLoop(output, pat, by) ==
    LET it == Find(output, pat, 1)
    IN IF it = 0 THEN output
       ELSE ReplaceLoop(Replace(output, it, Len(pat), by), pat, by)

RECURSIVE ReplaceList(_, _)
\* the loop over REPLACE_LIST from its k-th pair on
ReplaceList(output, k) ==
    IF k > Len(REPLACE_LIST) THEN output
    ELSE ReplaceList(ReplaceLoop(output, REPLACE_LIST[k][1], REPLACE_LIST[k][2]), k + 1)

\* the first position from i on whose token is not in S
SkipWhile(str, i, S) ==
    LET stop == {j \in i..Len(str) : str[j] \notin S}
    IN IF stop = {} THEN Max(i, Len(str) + 1) ELSE SetMin(stop)

\* the first position from i on whose token is in S
SkipUntil(str, i, S) ==
    LET stop == {j \in i..Len(str) : str[j] \in S}
    IN IF stop = {} THEN Max(i, Len(str) + 1) ELSE SetMin(stop)

\* std_allocator_re  ,\s*std::allocator<[^<>]+>  at position i: the position
\* after the match, 0 when it does not match there
MatchAllocator(str, i) ==
    IF str[i] /= "," THEN 0
    ELSE LET j == SkipWhile(str, i + 1, Space)
             k == SkipUntil(str, j + 3, {"<", ">"})
         IN IF /\ j + 2 <= Len(str)
               /\ str[j] = "std::"
               /\ str[j + 1] = "allocator"
               /\ str[j + 2] = "<"
               /\ k > j + 3
               /\ k <= Len(str)
               /\ str[k] = ">"
            THEN k + 1
            ELSE 0

RECURSIVE RemoveAllocators(_, _)
\* std::regex_replace(output, std_allocator_re, "") from position i on: the
\* text up to the first match is kept, the match is dropped
RemoveAllocators(str, i) ==
    LET at == {j \in i..Len(str) : MatchAllocator(str, j) /= 0}
    IN IF at = {} THEN SubSeq(str, i, Len(str))
       ELSE SubSeq(str, i, SetMin(at) - 1) \o
            RemoveAllocators(str, MatchAllocator(str, SetMin(at)))

\* template_spaces_re  <\s*([^<> ]+)\s*>  at position i: the bounds of the
\* group and the position after the match; to = 0 when it does not match
\* (a line end is a character of the group too: where nothing but white
\* space stands before the >, the group is the last line end of it)
MatchTemplate(str, i) ==
    LET j == SkipWhile(str, i + 1, Space)
        k == SkipUntil(str, j, {"<", ">", " "})
        l == SkipWhile(str, k, Space)
        nl == {p \in (i + 1)..(j - 1) : str[p] = "\n"}
    IN IF str[i] = "<" /\ k > j /\ l <= Len(str) /\ str[l] = ">"
       THEN [from |-> j, upto |-> k - 1, to |-> l + 1]
       ELSE IF str[i] = "<" /\ k = j /\ nl /= {} /\ j <= Len(str) /\ str[j] = ">"
       THEN [from |-> SetMax(nl), upto |-> SetMax(nl), to |-> j + 1]
       ELSE [from |-> 0, upto |-> 0, to |-> 0]

RECURSIVE TightenTemplates(_, _)
\* std::regex_replace(output, template_spaces_re, "<$1>") from position i on:
\* the text up to the first match is kept, the match becomes <$1>
TightenTemplates(str, i) ==
    LET at == {j \in i..Len(str) : MatchTemplate(str, j).to /= 0}
    IN IF at = {} THEN SubSeq(str, i, Len(str))
       ELSE LET m == MatchTemplate(str, SetMin(at))
            IN SubSeq(str, i, SetMin(at) - 1) \o
               <<"<">> \o SubSeq(str, m.from, m.upto) \o <<">">> \o
               TightenTemplates(str, m.to)

prettify_stacktrace(input) ==
    TightenTemplates(RemoveAllocators(ReplaceList(input, 1), 1), 1)

\* no text has been handed over (name: type_name<std::string>() in this
\* build; output, pair: the locals of prettify_stacktrace while it runs,
\* pair the index of p in REPLACE_LIST; replaced: the while loop has made a
\* replacement for this pair, before: the text that replacement was made in)
NoText == [input |-> <<>>, once |-> <<>>, twice |-> <<>>, done |-> FALSE,
           name |-> LongName, output |-> <<>>, pair |-> 1,
           replaced |-> FALSE, before |-> <<>>]

\* the text is prettified, and the result is prettified again (the whole
\* of prettify_stacktrace as one step, where the names are instantiations)
Prettify ==
    /\ ~text.done
    /\ text.name = LongName
    /\ text' = [text EXCEPT
                !.once = prettify_stacktrace(text.input),
                !.twice = prettify_stacktrace(prettify_stacktrace(text.input)),
                !.done = TRUE]
    /\ UNCHANGED <<g_verbosity, s_mutex, s_callbacks, s_fatal_handler, s_indentation,
                   stack, scopes, messages, trace, last, alive, ncalls, nextUid,
                   dirs, files, now, capture, cmdline>>

\* prettify_stacktrace step by step.  The pair p the for loop is at, and the
\* position its while loop finds p.first at (0: not found)
Pair == ReplaceListOf(text.name)[text.pair]
InReplaceList == ~text.done /\ text.pair <= Len(ReplaceListOf(text.name))
Found == Find(text.output, Pair[1], 1)

\* one iteration of the while loop: p.first is found and replaced
ReplaceIteration ==
    /\ InReplaceList
    /\ Found /= 0
    /\ text' = [text EXCEPT
                !.output = Replace(text.output, Found, Len(Pair[1]), Pair[2]),
                !.replaced = TRUE,
                !.before = text.output]
    /\ UNCHANGED <<g_verbosity, s_mutex, s_callbacks, s_fatal_handler, s_indentation,
                   stack, scopes, messages, trace, last, alive, ncalls, nextUid,
                   dirs, files, now, capture, cmdline>>

\* p.first is not found: the while loop ends, the for loop goes on
ReplaceNextPair ==
    /\ InReplaceList
    /\ Found = 0
    /\ text' = [text EXCEPT !.pair = text.pair + 1, !.replaced = FALSE, !.before = <<>>]
    /\ UNCHANGED <<g_verbosity, s_mutex, s_callbacks, s_fatal_handler, s_indentation,
                   stack, scopes, messages, trace, last, alive, ncalls, nextUid,
                   dirs, files, now, capture, cmdline>>

\* after the for loop: the two regex_replace calls, and the return
PrettifyReturn ==
    /\ ~text.done
    /\ text.pair > Len(ReplaceListOf(text.name))
    /\ text' = [text EXCEPT
                !.once = TightenTemplates(RemoveAllocators(text.output, 1), 1),
                !.done = TRUE]
    /\ UNCHANGED <<g_verbosity, s_mutex, s_callbacks, s_fatal_handler, s_indentation,
                   stack, scopes, messages, trace, last, alive, ncalls, nextUid,
                   dirs, files, now, capture, cmdline>>

\* the pieces of the texts the replacements are tried on
NameChunks ==
    {<<"x">>, <<"std::", "string">>, LongName, <<"type_name<std::wstring>">>,
     <<"std::", "__1::">>, <<"__thiscall ">>, <<"__cdecl ">>}

\* the texts of at most n of these pieces
NameTexts(n) == {Flatten(f) : f \in UNION {[1..k -> NameChunks] : k \in 0..n}}

\* ------------------------------------------------------------------------
\* stacktrace, stacktrace_as_stdstring
\*
\* The rendered trace is a text of tokens as above.  A token is at least one
\* character, "x" is one character.

\* sizeof(callstack) / sizeof(callstack[0]) and sizeof(buf)
max_frames == 128
BufSize == 1024

\* a frame of a thread's call stack: the return address backtrace() reports
\* for it and the name dladdr() finds for it (<<>>: none)
StackFrame(addr, sname) == [addr |-> addr, sname |-> sname]

\* the frames of the two functions of the library
StacktraceFrames ==
    <<StackFrame("&stacktrace_as_stdstring", <<"loguru::", "stacktrace_as_stdstring">>),
      StackFrame("&stacktrace", <<"loguru::", "stacktrace">>)>>

\* names of functions of the application: a plain one, one of a template,
\* one that fills buf by itself, and none
ShortName == <<"x">>
TemplateName == <<"x", "<", " ", "x", " ", ">">>
LongSymbol == [c \in 1..BufSize |-> "x"]
Snames == {ShortName, TemplateName, LongSymbol, <<>>}

\* the frames of the application below the call, innermost first: depth
\* frames named "x", but for the one at position at, which is named sname
AppStack(depth, at, sname) ==
    [j \in 1..depth |->
        StackFrame("0x" \o ToString(j), IF j = at THEN sname ELSE ShortName)]

\* depths of the application's stack: shallow ones, and those around the
\* room callstack has
StackDepths == {0, 1, 3, max_frames - 3, max_frames - 2, max_frames - 1, max_frames + 2}

\* the skip arguments: the default is 1
Skips == {-1, 0, 1, 2, max_frames}

\* backtrace(callstack, max_frames): the innermost frames that fit
backtrace(frames, size) == SubSeq(frames, 1, Min(Len(frames), size))

\* the line of callstack[i] in buf (i counts from 0): "%-3d %*p %s + %zd\n",
\* or "%-3d %*p %s\n" with symbols[i] where dladdr finds no name
FrameLine(callstack, i, skip) ==
    LET f == callstack[i + 1]
    IN Snprintf(BufSize,
           <<ToString(i - skip), " ", f.addr, " ">> \o
           (IF f.sname /= <<>>
            THEN f.sname \o <<" ", "+", " ", "offset">>
            ELSE <<"symbols[i]">>) \o
           <<"\n">>)

RECURSIVE FrameLines(_, _, _, _)
\* for (int i = num_frames - 1; i >= skip; --i) result += buf: the lines of
\* the frames from i down to low, one after the other (put together by
\* halves)
FrameLines(callstack, i, low, skip) ==
    IF i < low THEN <<>>
    ELSE IF i = low THEN FrameLine(callstack, i, skip)
    ELSE LET mid == (i + low) \div 2
         IN FrameLines(callstack, i, mid + 1, skip) \o
            FrameLines(callstack, mid, low, skip)

\* the marker put before the lines when callstack is full
Truncated(callstack, result) ==
    IF Len(callstack) = max_frames THEN <<"[truncated]", "\n">> \o result ELSE result

\* the last line end is dropped
Resized(result) ==
    IF result /= <<>> /\ result[Len(result)] = "\n"
    THEN SubSeq(result, 1, Len(result) - 1)
    ELSE result

\* stacktrace_as_stdstring(skip), called where the thread's stack is frames
stacktrace_as_stdstring(frames, skip) ==
    LET callstack == backtrace(frames, max_frames)
    IN prettify_stacktrace(
           Resized(Truncated(callstack,
               FrameLines(callstack, Len(callstack) - 1, skip, skip))))

\* no call of stacktrace has been made (app: the application's frames at the
\* call; skip: its argument; callstack: what backtrace captured)
NoCapture == [app |-> <<>>, skip |-> 0, callstack |-> <<>>, result |-> <<>>, done |-> FALSE]

\* stacktrace(skip): stacktrace_as_stdstring(skip + 1), in its own frame
stacktrace(skip) ==
    /\ ~capture.done
    /\ capture' = [capture EXCEPT
            !.skip = skip,
            !.callstack = backtrace(StacktraceFrames \o capture.app, max_frames),
            !.result = stacktrace_as_stdstring(StacktraceFrames \o capture.app, skip + 1),
            !.done = TRUE]
    /\ UNCHANGED <<g_verbosity, s_mutex, s_callbacks, s_fatal_handler, s_indentation,
                   stack, scopes, messages, trace, last, alive, ncalls, nextUid,
                   dirs, files, text, now, cmdline>>

\* ------------------------------------------------------------------------
\* init, parse_args
\*
\* An argument is a sequence of characters; argv is the sequence of the
\* arguments with Null after them (argv[i] of the code is argv[i + 1] here).

Null == <<"nullptr">>

\* the letters of the arguments: std::isalpha
Alpha == {"a", "e", "r", "v", "x"}

\* the arguments after argv[0]: -v alone, -vn, -v=n, -v with a negative
\* value, an option that only begins like -v, numbers and other arguments
ArgWords ==
    {<<"-", "v">>, <<"-", "v", "2">>, <<"-", "v", "=", "1">>, <<"-", "v", "-", "1">>,
     <<"-", "v", "e", "r">>, <<"3">>, <<"a">>, <<"-", "x">>}

\* the argument vectors of at most n arguments after the program's name
ArgVectors(n) == UNION {[1..k -> ArgWords] : k \in 0..n}

\* the value of a digit
DigitValue(c) == CHOOSE d \in 0..9 : DigitChar[d + 1] = c

IsDigit(c) == \E d \in 0..9 : DigitChar[d + 1] = c

RECURSIVE DigitsValue(_, _, _)
\* the number the digits of str from position i on stand for, after acc
DigitsValue(str, i, acc) ==
    IF i > Len(str) \/ ~IsDigit(str[i]) THEN acc
    ELSE DigitsValue(str, i + 1, 10 * acc + DigitValue(str[i]))

\* atoi: an optional sign and the digits that follow it, 0 where there are none
atoi(str) ==
    IF str /= <<>> /\ str[1] = "-" THEN -DigitsValue(str, 2, 0)
    ELSE IF str /= <<>> /\ str[1] = "+" THEN DigitsValue(str, 2, 0)
    ELSE DigitsValue(str, 1, 0)

\* strncmp(cmd, "-v", 2) == 0 && !std::isalpha(cmd[2])
IsVerbosityOption(cmd) ==
    /\ Len(cmd) >= 2
    /\ cmd[1] = "-"
    /\ cmd[2] = "v"
    /\ ~(Len(cmd) >= 3 /\ cmd[3] \in Alpha)

\* a value_str that keeps its =
SkipEquals_none(value_str) == value_str

\* if (*value_str == '=') { value_str += 1; }
SkipEquals(value_str) ==
    IF value_str /= <<>> /\ value_str[1] = "=" THEN Tail(value_str) ELSE value_str

RECURSIVE ParseLoop(_, _, _, _, _, _)
\* the for loop of parse_args from arg_it on; ok is FALSE where
\* CHECK_LT_F(arg_it, argc, ...) fails
ParseLoop(argc, argv, arg_it, arg_dest, out_argc, g) ==
    IF ~(arg_it < argc)
    THEN [ok |-> TRUE, argc |-> out_argc,
          argv |-> [argv EXCEPT ![out_argc + 1] = Null], g_verbosity |-> g]
    ELSE LET cmd == argv[arg_it + 1]
         IN IF IsVerbosityOption(cmd)
            THEN IF Len(cmd) = 2
                 THEN IF ~(arg_it + 1 < argc)
                      THEN [ok |-> FALSE, argc |-> argc, argv |-> argv, g_verbosity |-> g]
                      ELSE ParseLoop(argc, argv, arg_it + 2, arg_dest, out_argc - 2,
                                     atoi(SkipEquals(argv[arg_it + 2])))
                 ELSE ParseLoop(argc, argv, arg_it + 1, arg_dest, out_argc - 1,
                                atoi(SkipEquals(SubSeq(cmd, 3, Len(cmd)))))
            ELSE ParseLoop(argc, [argv EXCEPT ![arg_dest + 1] = cmd],
                           arg_it + 1, arg_dest + 1, out_argc, g)

\* parse_args(argc, argv) of a proper argument vector
parse_args(argc, argv, g) == ParseLoop(argc, argv, 1, 1, argc, g)

\* init has not been called (given: the arguments it is called with; g:
\* g_verbosity at the call; argc, argv: the caller's, as init leaves them)
NoArgs == [pc |-> "none", given |-> <<>>, g |-> 0, argc |-> 0, argv |-> <<>>]

\* init(argc, argv) with argv[0] = "a" followed by args: up to the return of
\* parse_args, or to its failed check
init(t, args) ==
    /\ CanCall(t)
    /\ cmdline.pc = "none"
    /\ LET given == <<(<<"a">>)>> \o args
           r == parse_args(Len(given), given \o <<Null>>, g_verbosity)
       IN /\ g_verbosity' = r.g_verbosity
          /\ cmdline' = [pc |-> IF r.ok THEN "parsed" ELSE "failed",
                         given |-> given, g |-> g_verbosity,
                         argc |-> r.argc, argv |-> r.argv]
          /\ stack' = [stack EXCEPT ![t] =
                 <<Frame("init", IF r.ok THEN "arguments" ELSE "check", 0, 0, "", FALSE)>>]
    /\ last' = [last EXCEPT ![t] = Call("init", 0, g_verbosity, 0, "void")]
    /\ ncalls' = ncalls + 1
    /\ UNCHANGED <<s_mutex, s_callbacks, s_fatal_handler, s_indentation,
                   scopes, messages, trace, alive, nextUid>>
    /\ UNCHANGED <<dirs, files, text, now, capture>>

\* parse_args: CHECK_LT_F(arg_it, argc, "Missing verbosiy level after -v")
\* has failed
InitCheckFailed(t) ==
    /\ alive
    /\ At(t, "init", "check")
    /\ DoCheckFailed(t, "Missing verbosiy level after -v",
           Append(Below(t), [Top(t) EXCEPT !.pc = "noreturn"]))
    /\ UNCHANGED <<g_verbosity, s_mutex, s_callbacks, s_fatal_handler, s_indentation,
                   scopes, trace, last, alive, ncalls, nextUid>>
    /\ UNCHANGED <<dirs, files, text, now, capture, cmdline>>

\* init: PREAMBLE_EXPLAIN to stdout, then LOG_F(INFO, "arguments: %s", ...)
InitArguments(t) ==
    /\ alive
    /\ At(t, "init", "arguments")
    /\ trace' = Append(trace, Event("explain", t, 0, 0, 0, "stdout"))
    /\ DoVLOG_F(t, INFO, "arguments:       %s",
           Append(Below(t), [Top(t) EXCEPT !.pc = "verbosity"]))
    /\ UNCHANGED <<g_verbosity, s_mutex, s_callbacks, s_fatal_handler, s_indentation,
                   scopes, last, alive, ncalls, nextUid>>
    /\ UNCHANGED <<dirs, files, text, now, capture, cmdline>>

\* init: LOG_F(INFO, "Verbosity level: %d", g_verbosity)
InitVerbosity(t) ==
    /\ alive
    /\ At(t, "init", "verbosity")
    /\ DoVLOG_F(t, INFO, "Verbosity level: %d",
           Append(Below(t), [Top(t) EXCEPT !.pc = "rule"]))
    /\ UNCHANGED <<g_verbosity, s_mutex, s_callbacks, s_fatal_handler, s_indentation,
                   scopes, trace, last, alive, ncalls, nextUid>>
    /\ UNCHANGED <<dirs, files, text, now, capture, cmdline>>

\* init: LOG_F(INFO, "-----------------------------------")
InitRule(t) ==
    /\ alive
    /\ At(t, "init", "rule")
    /\ DoVLOG_F(t, INFO, "-----------------------------------",
           Append(Below(t), [Top(t) EXCEPT !.pc = "atexit"]))
    /\ UNCHANGED <<g_verbosity, s_mutex, s_callbacks, s_fatal_handler, s_indentation,
                   scopes, trace, last, alive, ncalls, nextUid>>
    /\ UNCHANGED <<dirs, files, text, now, capture, cmdline>>

\* init: atexit(on_atexit), and the return
InitReturn(t) ==
    /\ alive
    /\ At(t, "init", "atexit")
    /\ trace' = Append(trace, Event("atexit", t, 0, 0, 0, "on_atexit"))
    /\ stack' = [stack EXCEPT ![t] = Below(t)]
    /\ cmdline' = [cmdline EXCEPT !.pc = "returned"]
    /\ UNCHANGED <<g_verbosity, s_mutex, s_callbacks, s_fatal_handler, s_indentation,
                   scopes, messages, last, alive, ncalls, nextUid>>
    /\ UNCHANGED <<dirs, files, text, now, capture>>

\* the steps inside init
InitStep(t) ==
    \/ InitCheckFailed(t)
    \/ InitArguments(t)
    \/ InitVerbosity(t)
    \/ InitRule(t)
    \/ InitReturn(t)

\* ------------------------------------------------------------------------
\* The specification

Init ==
    /\ g_verbosity = 0
    /\ s_mutex = [owner |-> NoThread, count |-> 0]
    /\ s_callbacks = <<>>
    /\ s_fatal_handler = "abort"
    /\ s_indentation = 0
    /\ stack = [t \in Threads |-> <<>>]
    /\ scopes = [t \in Threads |-> <<>>]
    /\ messages = <<>>
    /\ trace = <<>>
    /\ last = [t \in Threads |-> Call("none", 0, 0, 0, "void")]
    /\ alive = TRUE
    /\ ncalls = 0
    /\ nextUid = 1
    /\ dirs = {}
    /\ files = <<>>
    /\ now = 0
    /\ capture = NoCapture
    /\ cmdline = NoArgs
    /\ text = NoText

\* any text is handed to prettify_stacktrace; the logger is as constructed
InitPrettify ==
    /\ g_verbosity = 0
    /\ s_mutex = [owner |-> NoThread, count |-> 0]
    /\ s_callbacks = <<>>
    /\ s_fatal_handler = "abort"
    /\ s_indentation = 0
    /\ stack = [t \in Threads |-> <<>>]
    /\ scopes = [t \in Threads |-> <<>>]
    /\ messages = <<>>
    /\ trace = <<>>
    /\ last = [t \in Threads |-> Call("none", 0, 0, 0, "void")]
    /\ alive = TRUE
    /\ ncalls = 0
    /\ nextUid = 1
    /\ dirs = {}
    /\ files = <<>>
    /\ now = 0
    /\ capture = NoCapture
    /\ cmdline = NoArgs
    /\ \E x \in Texts(MaxChunks) : text = [NoText EXCEPT !.input = x]

\* the logger as constructed, with no call made
Constructed ==
    /\ g_verbosity = 0
    /\ s_mutex = [owner |-> NoThread, count |-> 0]
    /\ s_callbacks = <<>>
    /\ s_fatal_handler = "abort"
    /\ s_indentation = 0
    /\ stack = [t \in Threads |-> <<>>]
    /\ scopes = [t \in Threads |-> <<>>]
    /\ messages = <<>>
    /\ trace = <<>>
    /\ last = [t \in Threads |-> Call("none", 0, 0, 0, "void")]
    /\ alive = TRUE
    /\ ncalls = 0
    /\ nextUid = 1
    /\ dirs = {}
    /\ files = <<>>
    /\ now = 0

\* prettify_stacktrace has been called on any text, in any build, and is
\* at the start of its for loop
InitReplace ==
    /\ Constructed
    /\ capture = NoCapture
    /\ cmdline = NoArgs
    /\ \E x \in NameTexts(MaxPieces), name \in TypeNames :
          text = [NoText EXCEPT !.input = x, !.output = x, !.name = name]

\* a thread of the application is about to call stacktrace
InitCapture ==
    /\ Constructed
    /\ text = NoText
    /\ cmdline = NoArgs
    /\ \E depth \in StackDepths, at \in {1, 2}, sname \in Snames :
          capture = [NoCapture EXCEPT !.app = AppStack(depth, at, sname)]

\* the depths at which thread 1 starts: none, and one below the cap
Depths == {0, 99}

\* thread 2 has opened scopes (all written and returned from) and waits:
\* the logger is otherwise as constructed
InitDeep ==
    /\ g_verbosity = 0
    /\ s_mutex = [owner |-> NoThread, count |-> 0]
    /\ s_callbacks = <<>>
    /\ s_fatal_handler = "abort"
    /\ \E d \in Depths :
          /\ s_indentation = d
          /\ scopes = [t \in Threads |->
                 IF t = 2 THEN [i \in 1..d |-> Scope(INFO, TRUE, 0, "user", 0)]
                 ELSE <<>>]
    /\ stack = [t \in Threads |-> <<>>]
    /\ messages = <<>>
    /\ trace = <<>>
    /\ last = [t \in Threads |-> Call("none", 0, 0, 0, "void")]
    /\ alive = TRUE
    /\ ncalls = 0
    /\ nextUid = 1
    /\ dirs = {}
    /\ files = <<>>
    /\ text = NoText
    /\ now = 0
    /\ capture = NoCapture
    /\ cmdline = NoArgs

\* the steps inside a call: dispatch, registry, fatal path, scopes
Step(t) ==
    \/ LogMessageLock(t)
    \/ LogMessageInvoke(t)
    \/ HookReturn(t)
    \/ LogMessageReturn(t)
    \/ RemoveErase(t)
    \/ RemoveNotFound(t)
    \/ AbortFatal(t)
    \/ AbortExit(t)
    \/ ScopeIndent(t)
    \/ ScopeExitLog(t)

\* the steps inside add_file
FileStep(t) ==
    \/ AddFileErrno(t)
    \/ AddFileMkpathFailed(t)
    \/ AddFileOpen(t)
    \/ AddFileRegister(t)
    \/ AddFileHeader(t)
    \/ AddFileReturn(t)

\* calls of the registry and of the LOG_F macro
RegistryCall(t) ==
    \/ \E v \in NamedVerbosity : VLOG_F(t, v, "user")
    \/ \E id \in Ids, v \in Cutoffs, c \in BOOLEAN : add_callback(t, id, v, c)
    \/ \E id \in Ids : remove_callback(t, id)

\* the other calls of the application
OtherCall(t) ==
    \/ \E v \in NamedVerbosity : RAW_VLOG_F(t, v, "user")
    \/ \E v \in NamedVerbosity : log(t, v, "user")
    \/ \E v \in NamedVerbosity : raw_log(t, v, "user")
    \/ \E h \in FatalHandlers : set_fatal_handler(t, h)
    \/ \E st \in BOOLEAN : log_and_abort(t, st, "user")
    \/ \E v \in NamedVerbosity : ScopeEnter(t, v, "user")
    \/ ScopeExit(t)
    \/ \E v \in NamedVerbosity : SetVerbosity(t, v)

\* calls with a format that may fail
FormatCall(t) ==
    \/ \E v \in FormatVerbosity, f \in Formats : VLOG_F(t, v, f)
    \/ \E v \in FormatVerbosity, f \in Formats : log(t, v, f)
    \/ \E v \in FormatVerbosity, f \in Formats : raw_log(t, v, f)
    \/ \E st \in BOOLEAN, f \in Formats : log_and_abort(t, st, f)
    \/ \E v \in FormatVerbosity, f \in Formats : ScopeEnter(t, v, f)
    \/ ScopeExit(t)
    \/ \E id \in Ids : add_callback(t, id, MAX, FALSE)

\* the conditional macros, under every threshold
CondCall(t) ==
    \/ \E v \in NamedVerbosity, c \in BOOLEAN : LOG_IF_F(t, v, c, "user")
    \/ \E v \in NamedVerbosity, c \in BOOLEAN : VLOG_IF_F(t, v, c, "user")
    \/ \E id \in Ids : add_callback(t, id, MAX, FALSE)
    \/ \E v \in NamedVerbosity : SetVerbosity(t, v)

\* calls that make and remove log files, and the environment lookups
FileCall(t) ==
    \/ \E path \in Paths, mode \in FileMode, v \in Cutoffs, env \in Envs :
          add_file(t, path, mode, v, env)
    \/ \E path \in Paths : remove_callback(t, path)
    \/ \E tilde, home, fits \in BOOLEAN : suggest_log_path(t, tilde, home, fits)
    \/ \E v \in FormatVerbosity : VLOG_F(t, v, "user")
    \/ \E v \in ThresholdVerbosity : SetVerbosity(t, v)

\* every call, from every thread
Next ==
    \E t \in Threads :
        \/ RegistryCall(t) \/ OtherCall(t) \/ FormatCall(t) \/ CondCall(t) \/ FileCall(t)
        \/ \E id \in Ids, v \in ReporterCutoffs : add_reporter(t, id, v)
        \/ Step(t) \/ FileStep(t) \/ LogMessageInvokeReporter(t)
        \/ Prettify
        \/ ReplaceIteration \/ ReplaceNextPair \/ PrettifyReturn
        \/ \E skip \in Skips : stacktrace(skip)
        \/ \E args \in ArgVectors(MaxArgs) : init(t, args)
        \/ InitStep(t)
        \/ Tick

\* prettify_stacktrace step by step
NextReplace == ReplaceIteration \/ ReplaceNextPair \/ PrettifyReturn

\* the main thread sets a threshold or not, and calls init
NextArgs ==
    \/ \E v \in ThresholdVerbosity : SetVerbosity(1, v)
    \/ \E args \in ArgVectors(MaxArgs) : init(1, args)
    \/ InitStep(1)
    \/ LogMessageLock(1)
    \/ LogMessageReturn(1)
    \/ AbortFatal(1)
    \/ AbortExit(1)

\* stack traces with every skip
NextCapture == \E skip \in Skips : stacktrace(skip)

\* one thread formatting
NextFormat ==
    \/ FormatCall(1)
    \/ LogMessageLock(1)
    \/ LogMessageInvoke(1)
    \/ HookReturn(1)
    \/ LogMessageReturn(1)
    \/ AbortFatal(1)
    \/ AbortExit(1)
    \/ ScopeIndent(1)
    \/ ScopeExitLog(1)

\* one thread using the conditional macros
NextCond ==
    \/ CondCall(1)
    \/ LogMessageLock(1)
    \/ LogMessageInvoke(1)
    \/ HookReturn(1)
    \/ LogMessageReturn(1)

\* one thread making and removing log files
NextFiles ==
    \/ FileCall(1)
    \/ FileStep(1)
    \/ LogMessageLock(1)
    \/ LogMessageInvoke(1)
    \/ LogMessageReturn(1)
    \/ RemoveErase(1)
    \/ RemoveNotFound(1)
    \/ AbortFatal(1)
    \/ AbortExit(1)

\* two threads using LOG_F, add_callback and remove_callback
NextRegistry ==
    \E t \in Threads :
        \/ RegistryCall(t)
        \/ LogMessageLock(t)
        \/ LogMessageInvoke(t)
        \/ HookReturn(t)
        \/ LogMessageReturn(t)
        \/ RemoveErase(t)
        \/ RemoveNotFound(t)

\* two threads opening and closing scopes and using LOG_F
NextScopes ==
    \E t \in Threads :
        \/ \E v \in ScopeVerbosity : ScopeEnter(t, v, "user")
        \/ ScopeExit(t)
        \/ VLOG_F(t, INFO, "user")
        \/ LogMessageLock(t)
        \/ LogMessageReturn(t)
        \/ ScopeIndent(t)
        \/ ScopeExitLog(t)

\* one thread logging at every severity, with and without a preamble
NextPreamble ==
    \/ \E v \in Verbosities : log(1, v, "user")
    \/ \E v \in Verbosities : raw_log(1, v, "user")
    \/ LogMessageLock(1)
    \/ LogMessageReturn(1)

\* one thread logging to sinks that report at ERROR when they are invoked
NextReentrant ==
    \/ \E id \in Ids, v \in ReporterCutoffs : add_reporter(1, id, v)
    \/ \E v \in NamedVerbosity : VLOG_F(1, v, "user")
    \/ LogMessageLock(1)
    \/ LogMessageInvokeReporter(1)
    \/ HookReturn(1)
    \/ LogMessageReturn(1)

\* one thread adding log files while the other uses LOG_F
NextFilesRace ==
    \/ \E mode \in FileMode, v \in Cutoffs : add_file(1, "c.log", mode, v, "ok")
    \/ AddFileOpen(1)
    \/ AddFileRegister(1)
    \/ AddFileHeader(1)
    \/ AddFileReturn(1)
    \/ \E v \in FormatVerbosity : VLOG_F(2, v, "user")
    \/ \E t \in Threads : LogMessageLock(t)
    \/ \E t \in Threads : LogMessageInvoke(t)
    \/ \E t \in Threads : LogMessageReturn(t)

\* one thread opening and closing scopes while time passes
NextTiming ==
    \/ \E v \in ScopeVerbosity : ScopeEnter(1, v, "user")
    \/ ScopeIndent(1)
    \/ ScopeExit(1)
    \/ ScopeExitLog(1)
    \/ LogMessageLock(1)
    \/ LogMessageReturn(1)
    \/ Tick

\* one thread opening and closing scopes and logging, to a sink that may log
NextIndent ==
    \/ \E v \in ScopeVerbosity : ScopeEnter(1, v, "user")
    \/ ScopeIndent(1)
    \/ ScopeExit(1)
    \/ ScopeExitLog(1)
    \/ VLOG_F(1, INFO, "user")
    \/ RAW_VLOG_F(1, INFO, "user")
    \/ add_callback(1, "a", MAX, FALSE)
    \/ LogMessageLock(1)
    \/ LogMessageInvoke(1)
    \/ HookReturn(1)
    \/ LogMessageReturn(1)

\* one thread making every call
NextSeq == RegistryCall(1) \/ OtherCall(1) \/ Step(1)

Spec == Init /\ [][Next]_vars

SpecRegistry == Init /\ [][NextRegistry]_vars

SpecSeq == Init /\ [][NextSeq]_vars

SpecScopes == Init /\ [][NextScopes]_vars

SpecFormat == Init /\ [][NextFormat]_vars

SpecCond == Init /\ [][NextCond]_vars

SpecPrettify == InitPrettify /\ [][Prettify]_vars

SpecFiles == Init /\ [][NextFiles]_vars

SpecPreamble == Init /\ [][NextPreamble]_vars

SpecReentrant == Init /\ [][NextReentrant]_vars

SpecFilesRace == Init /\ [][NextFilesRace]_vars

SpecTiming == Init /\ [][NextTiming]_vars

SpecIndent == InitDeep /\ [][NextIndent]_vars

SpecReplace == InitReplace /\ [][NextReplace]_vars

SpecCapture == InitCapture /\ [][NextCapture]_vars

SpecArgs == Init /\ [][NextArgs]_vars


\* ------------------------------------------------------------------------
\* Properties

Indices(k) == {i \in 1..Len(trace) : trace[i].k = k}

\* the callback invocations made for message m, in order
CallbacksFor(m) == SelectSeq(trace, LAMBDA e : e.k = "callback" /\ e.msg = m)

\* thread t is taking its last step in fn at pc: the frame is popped
Returns(t, fn, pc) == At(t, fn, pc) /\ stack'[t] = Below(t)

\* the stream writes made for message m (m = 0: no message was built)
Written(m) == {i \in Indices("write") : trace[i].msg = m}

\* thread t is between the stream write of a message and the end of the
\* traversal for it
InEmit(t) ==
    \E i \in 1..Len(stack[t]) :
        stack[t][i].fn = "log_message" /\ stack[t][i].pc = "loop"

\* the stream write of message m
WriteOf(m) == CHOOSE i \in Indices("write") : trace[i].msg = m

\* C1: when log_message returns for a message of severity s, the callbacks
\* invoked for that message are exactly the entries of the registry with
\* s <= cutoff, each once, in registration order, each with its user_data.
C1_DispatchToEligible ==
    [][\A t \in Threads :
          Returns(t, "log_message", "loop") =>
             LET m == Top(t).msg
                 s == messages[m].verbosity
                 due == SelectSeq(s_callbacks, LAMBDA p : s <= p.verbosity)
                 got == CallbacksFor(m)
             IN /\ Len(got) = Len(due)
                /\ \A i \in 1..Len(due) :
                      /\ got[i].uid = due[i].uid
                      /\ got[i].arg = due[i].user_data
                /\ \A i, j \in 1..Len(due) : i < j => due[i].uid < due[j].uid]_vars

\* C1 witness: with two entries registered, a message has been passed to
\* both callbacks and log_message has returned
C1_Witness ==
    \E r \in Indices("return") :
        /\ Len(CallbacksFor(trace[r].msg)) >= 2
        /\ Len(s_callbacks) >= 2

\* C2: a LOG_F / RAW_LOG_F call at severity s made when the threshold was g
\* has written its message iff s < 0 or s <= g.
C2_EmittedIffEnabled ==
    \A t \in Threads :
        (Idle(t) /\ last[t].op \in {"VLOG_F", "RAW_VLOG_F"}) =>
            ((last[t].msg /= 0 /\ Written(last[t].msg) /= {})
                <=> (last[t].sev < 0 \/ last[t].sev <= last[t].g))

C4_CloseOnceAtRemoval ==
    /\ \A e \in Indices("erase") :
          LET u == trace[e].uid
              closes == {c \in Indices("close") : trace[c].uid = u}
          IN /\ Cardinality(closes) = (IF trace[e].arg.close THEN 1 ELSE 0)
             /\ \A c \in closes : c < e /\ trace[c].thr = trace[e].thr
             /\ \A i \in Indices("callback") : trace[i].uid = u => i < e
             /\ \A i \in 1..Len(s_callbacks) : s_callbacks[i].uid /= u
    /\ \A c \in Indices("close") :
          \/ \E e \in Indices("erase") : trace[e].uid = trace[c].uid
          \/ \E i \in 1..Len(stack[trace[c].thr]) :
                LET f == stack[trace[c].thr][i]
                IN /\ f.fn = "remove_callback"
                   /\ f.pc = "erase"
                   /\ s_callbacks[f.idx].uid = trace[c].uid
                   /\ Cardinality({d \in Indices("close") : trace[d].uid = trace[c].uid}) = 1

\* C4 witness: an entry with a close hook was removed, and afterwards a
\* message it was eligible for has been dispatched
C4_Witness ==
    \E e \in Indices("erase"), r \in Indices("return") :
        /\ trace[e].arg.close
        /\ e < r
        /\ trace[r].sev <= trace[e].arg.verbosity

\* C5: the erase of remove_callback(id) removes the earliest entry whose id
\* is id and nothing else; that entry's close hook, when non-null, has been
\* invoked once, with that entry's user_data, during this call; no close hook
\* of any other entry has been invoked.
C5_RemoveFirstMatch ==
    [][\A t \in Threads :
          Returns(t, "remove_callback", "erase") =>
             LET id == Top(t).id
                 n == Len(s_callbacks)
             IN \E i \in 1..n :
                   /\ s_callbacks[i].id = id
                   /\ \A j \in 1..(i - 1) : s_callbacks[j].id /= id
                   /\ Len(s_callbacks') = n - 1
                   /\ \A j \in 1..(n - 1) :
                         s_callbacks'[j] = s_callbacks[IF j < i THEN j ELSE j + 1]
                   /\ LET closes == {c \in Indices("close") : trace[c].uid = s_callbacks[i].uid}
                      IN IF s_callbacks[i].close
                         THEN /\ Cardinality(closes) = 1
                              /\ \A c \in closes :
                                    /\ c > Top(t).st
                                    /\ trace[c].arg = s_callbacks[i].user_data
                         ELSE closes = {}
                   /\ \A j \in (1..n) \ {i} :
                         \A c \in Indices("close") : trace[c].uid /= s_callbacks[j].uid]_vars

\* C5 witness: an entry with a close hook has been removed while a later
\* entry with the same id stays registered
C5_Witness ==
    \E e \in Indices("erase") :
        /\ trace[e].arg.close
        /\ \E j \in 1..Len(s_callbacks) :
              /\ s_callbacks[j].id = trace[e].arg.id
              /\ s_callbacks[j].uid > trace[e].uid

\* C6: when remove_callback returns without having found the id, the process
\* is alive, the registry is as it was when the call started, no close hook
\* was invoked during the call, exactly one message, of severity ERROR, was
\* written for the report, and the call returns a failure indicator.
C6_NotFoundReported ==
    [][\A t \in Threads :
          Returns(t, "remove_callback", "unlock") =>
             LET f == Top(t)
             IN /\ alive'
                /\ s_callbacks' = s_callbacks
                /\ \A i \in (f.st + 1)..Len(trace) :
                      trace[i].k \notin {"close", "push_back", "erase"}
                /\ f.msg /= 0
                /\ messages[f.msg].verbosity = ERROR
                /\ Cardinality(Written(f.msg)) = 1
                /\ last'[t].ret = "failure"]_vars

C8_PerThreadOrder ==
    \A ra, rb \in Indices("return") :
        (/\ trace[ra].thr = trace[rb].thr
         /\ ra < WriteOf(trace[rb].msg))
        => \A p \in Indices("push_back") :
              (/\ p < WriteOf(trace[ra].msg)
               /\ \A e \in Indices("erase") : trace[e].uid = trace[p].uid => rb < e
               /\ trace[ra].sev <= trace[p].arg.verbosity
               /\ trace[rb].sev <= trace[p].arg.verbosity)
              => \E ca, cb \in Indices("callback") :
                    /\ trace[ca].uid = trace[p].uid
                    /\ trace[ca].msg = trace[ra].msg
                    /\ trace[cb].uid = trace[p].uid
                    /\ trace[cb].msg = trace[rb].msg
                    /\ ca < cb

\* C8 witness: a thread has logged twice in sequence and an entry has
\* received both messages
C8_Witness ==
    \E ra, rb \in Indices("return"), ca, cb \in Indices("callback") :
        /\ trace[ra].thr = trace[rb].thr
        /\ ra < WriteOf(trace[rb].msg)
        /\ trace[ca].uid = trace[cb].uid
        /\ trace[ca].msg = trace[ra].msg
        /\ trace[cb].msg = trace[rb].msg

\* C9: a thread inside a call can take its next step, or it waits for the
\* mutex, the mutex is owned by another thread and that thread can take its
\* next step; in particular a thread that owns the mutex never waits for it.
C9_NoSelfDeadlock ==
    \A t \in Threads :
        (alive /\ ~Idle(t)) =>
            \/ ENABLED Step(t)
            \/ /\ s_mutex.owner \in Threads \ {t}
               /\ ENABLED Step(s_mutex.owner)

\* C9 witness: a thread holds the mutex twice, the second time for a log
\* call issued below log_message or remove_callback, while the other thread
\* waits for the mutex
C9_Witness ==
    \E t, u \in Threads :
        /\ t /= u
        /\ s_mutex.owner = t
        /\ s_mutex.count = 2
        /\ At(u, "log_message", "lock")

\* C10: when log_and_abort has terminated the process it has, in this order
\* and each once: written and dispatched the stack-trace message at ERROR
\* (when the trace is non-empty), written the failure message at FATAL and
\* passed it to every eligible entry, invoked the fatal handler (when set),
\* and aborted.
C10_FatalSequence ==
    \A t \in Threads :
        At(t, "log_and_abort", "dead") =>
            LET f == Top(t)
                fatal == Written(f.idx)
                aborts == {i \in Indices("abort") : trace[i].thr = t}
                handlers == {i \in Indices("fatal_handler") : trace[i].thr = t}
            IN /\ f.st => /\ f.msg /= 0
                          /\ messages[f.msg].verbosity = ERROR
                          /\ Cardinality(Written(f.msg)) = 1
                          /\ \A i \in Written(f.msg), j \in fatal : i < j
               /\ Cardinality(fatal) = 1
               /\ messages[f.idx].verbosity = FATAL
               /\ LET due == SelectSeq(s_callbacks, LAMBDA p : FATAL <= p.verbosity)
                      got == CallbacksFor(f.idx)
                  IN /\ Len(got) = Len(due)
                     /\ \A i \in 1..Len(due) : got[i].uid = due[i].uid
               /\ Cardinality(handlers) = (IF s_fatal_handler = "null" THEN 0 ELSE 1)
               /\ Cardinality(aborts) = 1
               /\ \A i \in Indices("return"), h \in handlers :
                     trace[i].msg = f.idx => i < h
               /\ \A h \in handlers, a \in aborts : h < a
               /\ ~alive

\* the scopes, of all threads, that have incremented the depth and have not
\* yet decremented it
OpenScopes ==
    {p \in UNION {{<<t, i>> : i \in 1..Len(scopes[t])} : t \in Threads} :
        scopes[p[1]][p[2]].file}

\* the message built by the step, if the step builds one
Built == messages'[Len(messages')]

\* C11: a LogScopeRAII constructed at a disabled severity builds no message
\* and leaves the depth alone, and its destructor changes nothing; at an
\* enabled severity (negative, or not above the threshold) the constructor
\* builds one entry message, which is written once before the depth is
\* incremented by one, and the destructor decrements the depth by one and
\* then builds one exit message of the scope's severity, whatever the
\* threshold is by then.
C11_ScopeContract ==
    [][\A t \in Threads :
          /\ (last'[t] /= last[t] /\ last'[t].op = "LogScopeRAII") =>
                LET s == last'[t].sev
                IN IF s < 0 \/ s <= g_verbosity
                   THEN /\ Len(messages') = Len(messages) + 1
                        /\ Built.verbosity = s
                        /\ Built.prefix = "{ "
                        /\ s_indentation' = s_indentation
                        /\ scopes' = scopes
                   ELSE /\ UNCHANGED <<messages, trace, s_indentation, stack>>
                        /\ scopes'[t] = Append(scopes[t], Scope(s, FALSE, now, "", 0))
          /\ Returns(t, "LogScopeRAII", "inc") =>
                /\ Cardinality(Written(Top(t).msg)) = 1
                /\ s_indentation' = s_indentation + 1
                /\ UNCHANGED messages
                /\ Len(scopes'[t]) = Len(scopes[t]) + 1
                /\ scopes'[t][Len(scopes'[t])].verbosity = Top(t).idx
                /\ scopes'[t][Len(scopes'[t])].file
          /\ Len(scopes'[t]) < Len(scopes[t]) =>
                IF scopes[t][Len(scopes[t])].file
                THEN /\ s_indentation' = s_indentation - 1
                     /\ UNCHANGED <<messages, trace>>
                     /\ At(t, "~LogScopeRAII", "log")'
                ELSE UNCHANGED <<messages, trace, s_indentation, stack, s_mutex>>
          /\ (At(t, "~LogScopeRAII", "log") /\ stack'[t] /= stack[t]) =>
                /\ Len(messages') = Len(messages) + 1
                /\ Built.verbosity = Top(t).idx
                /\ At(t, "log_message", "lock")'
                /\ UNCHANGED s_indentation]_vars

\* C12: the depth is the number of scopes, of all threads, between their
\* increment and their decrement; it is never negative and is zero when no
\* scope is live; and the indentation of a message with a preamble is that
\* of the depth at the moment it is built, whoever opened the scopes.
C12_SharedDepth ==
    /\ [](/\ s_indentation = Cardinality(OpenScopes)
          /\ s_indentation >= 0
          /\ (\A t \in Threads : scopes[t] = <<>>) => s_indentation = 0)
    /\ [][Len(messages') = Len(messages) + 1 =>
             (Built.preamble =>
                 Built.indentation = 4 * Min(Cardinality(OpenScopes), 100))]_vars

\* C12 witness: a thread with no scope of its own has logged a message that
\* is indented by a scope of the other thread, and has written it
C12_Witness ==
    \E m \in 1..Len(messages) :
        /\ messages[m].indentation = 4
        /\ scopes[messages[m].thr] = <<>>
        /\ Written(m) /= {}
        /\ \E u \in Threads \ {messages[m].thr} :
              /\ Len(scopes[u]) = 1
              /\ scopes[u][1].file
        /\ s_indentation = 1

\* C13: a message is written at most once, and exactly once by the time a
\* callback is invoked for it or log_message returns for it; the write comes
\* before every callback invocation for the message; and it goes to stderr
\* iff the severity is negative, to stdout iff the severity is >= 0.
C13_OneStreamBeforeSinks ==
    /\ \A m \in 1..Len(messages) : Cardinality(Written(m)) <= 1
    /\ \A w \in Indices("write") :
          /\ trace[w].arg \in {"stderr", "stdout"}
          /\ trace[w].sev = messages[trace[w].msg].verbosity
          /\ trace[w].arg = "stderr" <=> messages[trace[w].msg].verbosity < 0
          /\ trace[w].arg = "stdout" <=> messages[trace[w].msg].verbosity >= 0
    /\ \A i \in Indices("callback") \cup Indices("return") :
          /\ Cardinality(Written(trace[i].msg)) = 1
          /\ WriteOf(trace[i].msg) < i

\* C13 witness: a WARNING message went to stderr and an INFO message to
\* stdout, each followed by a callback invocation for it
C13_Witness ==
    \E a, b \in Indices("write"), ca, cb \in Indices("callback") :
        /\ trace[a].sev = WARNING
        /\ trace[a].arg = "stderr"
        /\ trace[b].sev = INFO
        /\ trace[b].arg = "stdout"
        /\ trace[ca].msg = trace[a].msg
        /\ trace[cb].msg = trace[b].msg

\* C14: a registration appends exactly one entry at the end of the registry
\* and leaves every entry that was there as it was and where it was, also
\* when an entry with the same id is registered already; the registry grows
\* in no other way; and when log_message returns for a message, every one of
\* several entries with the same id that is eligible has been invoked for
\* it exactly once.
C14_AppendOnly ==
    [][/\ (Len(trace') = Len(trace) + 1 /\ trace'[Len(trace')].k = "push_back") =>
             /\ Len(s_callbacks') = Len(s_callbacks) + 1
             /\ SubSeq(s_callbacks', 1, Len(s_callbacks)) = s_callbacks
             /\ s_callbacks'[Len(s_callbacks')] = trace'[Len(trace')].arg
             /\ \A i \in 1..Len(s_callbacks) :
                   s_callbacks[i].uid /= s_callbacks'[Len(s_callbacks')].uid
       /\ Len(s_callbacks') > Len(s_callbacks) =>
             (Len(trace') = Len(trace) + 1 /\ trace'[Len(trace')].k = "push_back")
       /\ \A t \in Threads :
             Returns(t, "log_message", "loop") =>
                \A i, j \in 1..Len(s_callbacks) :
                   (/\ i /= j
                    /\ s_callbacks[i].id = s_callbacks[j].id
                    /\ messages[Top(t).msg].verbosity <= s_callbacks[i].verbosity)
                   => Cardinality({c \in Indices("callback") :
                                      /\ trace[c].msg = Top(t).msg
                                      /\ trace[c].uid = s_callbacks[i].uid}) = 1]_vars

\* C14 witness: two entries with the same id are registered and a message
\* has been passed to both
C14_Witness ==
    \E i, j \in 1..Len(s_callbacks), r \in Indices("return") :
        /\ i < j
        /\ s_callbacks[i].id = s_callbacks[j].id
        /\ \E ci, cj \in Indices("callback") :
              /\ trace[ci].msg = trace[r].msg
              /\ trace[cj].msg = trace[r].msg
              /\ trace[ci].uid = s_callbacks[i].uid
              /\ trace[cj].uid = s_callbacks[j].uid

\* the events of kind k that happened after the first n events
EventsSince(n, k) == {i \in (n + 1)..Len(trace) : trace[i].k = k}

\* C15: when add_file returns after fopen failed, it returns false, it has
\* reported the failure with one message of severity ERROR that has been
\* written, the registry got no entry and lost none during the call, and the
\* process is alive; no add_file call ends in log_and_abort.
C15_OpenFailureReported ==
    [][\A t \in Threads :
          /\ (Returns(t, "add_file", "ret") /\ ~Top(t).st.ret) =>
                /\ last'[t].ret = "false"
                /\ Top(t).msg /= 0
                /\ messages[Top(t).msg].verbosity = ERROR
                /\ messages[Top(t).msg].message = "Failed to open '%s'"
                /\ Cardinality(Written(Top(t).msg)) = 1
                /\ EventsSince(Top(t).st.from, "push_back") = {}
                /\ EventsSince(Top(t).st.from, "erase") = {}
                /\ alive'
          /\ ~(\E i, j \in 1..Len(stack'[t]) :
                  /\ stack'[t][i].fn = "add_file"
                  /\ stack'[t][j].fn = "log_and_abort")]_vars

\* the directories mkpath has to make sure of: the prefixes of the path that
\* end before a '/', the first character apart
Prefixes(chars) == {SubSeq(chars, 1, q - 1) : q \in {q \in 2..Len(chars) : chars[q] = "/"}}

\* C16: when add_file returns for a relative nested path and the file system
\* refuses nothing, it returns true; every prefix of the path that ends
\* before a '/' is a directory, and those that were missing at the call were
\* made during it, shorter before longer; the file was opened once and is
\* open; its first three lines are the header lines; the registry has
\* exactly one entry more, the last, with id = path, the given cutoff,
\* file_log and the FILE* as callback and user_data, and a close hook; and
\* when such an entry is erased its file has been closed.
C16_AddFileCreatesPath ==
    [][\A t \in Threads :
          /\ (/\ Returns(t, "add_file", "ret")
              /\ Top(t).st.env = "ok"
              /\ Prefixes(Chars(Top(t).id)) /= {}) =>
                LET f == Top(t)
                    chars == Chars(f.id)
                    made == EventsSince(f.st.from, "mkdir")
                    pushed == EventsSince(f.st.from, "push_back")
                IN /\ f.st.ret
                   /\ last'[t].ret = "true"
                   /\ Prefixes(chars) \subseteq dirs
                   /\ {trace[i].arg : i \in made} = Prefixes(chars) \ f.st.before
                   /\ \A i, j \in made : i < j => Len(trace[i].arg) < Len(trace[j].arg)
                   /\ Cardinality(EventsSince(f.st.from, "fopen")) = 1
                   /\ files[f.idx].path = f.id
                   /\ files[f.idx].mode = f.st.mode
                   /\ files[f.idx].open
                   /\ Len(files[f.idx].lines) >= 3
                   /\ files[f.idx].lines[1].kind = "arguments"
                   /\ files[f.idx].lines[2].kind = "Verbosity level"
                   /\ files[f.idx].lines[3].kind = "PREAMBLE_EXPLAIN"
                   /\ Cardinality(pushed) = 1
                   /\ EventsSince(f.st.from, "erase") = {}
                   /\ \A i \in pushed :
                         /\ s_callbacks[Len(s_callbacks)] = trace[i].arg
                         /\ trace[i].arg.id = f.id
                         /\ trace[i].arg.verbosity = f.st.verbosity
                         /\ trace[i].arg.callback = "file_log"
                         /\ trace[i].arg.user_data = FilePtr(f.idx)
                         /\ trace[i].arg.close
          /\ (/\ Returns(t, "remove_callback", "erase")
              /\ s_callbacks[Top(t).idx].callback = "file_log") =>
                ~files[FileOf(s_callbacks[Top(t).idx].user_data)].open]_vars

\* C16 witness: add_file("a/b/c.log") has returned true, having made the
\* directories a and a/b, and the file holds its header
C16_Witness ==
    \E t \in Threads :
        /\ Idle(t)
        /\ last[t].op = "add_file"
        /\ last[t].ret = "true"
        /\ \E i, j \in Indices("mkdir") :
              /\ i < j
              /\ trace[i].arg = <<"a">>
              /\ trace[j].arg = <<"a", "/", "b">>
        /\ \E k \in 1..Len(files) :
              /\ files[k].path = "a/b/c.log"
              /\ Len(files[k].lines) >= 3
        /\ \E i \in 1..Len(s_callbacks) : s_callbacks[i].id = "a/b/c.log"

\* thread t is on the fatal path
InFatal(t) == \E i \in 1..Len(stack[t]) : stack[t][i].fn = "log_and_abort"

\* C17: a call of log, raw_log, LOG_F, log_and_abort or the LogScopeRAII
\* constructor is filtered (it builds nothing), or it builds a message whose
\* body is the text of a format that formats, or it has entered the fatal
\* path; and no message whose body is what a failed formatting left behind
\* is ever written or passed to a callback.
C17_FormatFailureIsFatal ==
    /\ [][\A t \in Threads :
             (/\ last'[t] /= last[t]
              /\ last'[t].op \in {"log", "raw_log", "VLOG_F", "log_and_abort", "LogScopeRAII"})
             => \/ UNCHANGED <<messages, stack>>
                \/ InFatal(t)'
                \/ /\ Len(messages') = Len(messages) + 1
                   /\ Built.message \in {f \in Formats : vasprintf(f) >= 0}]_vars
    /\ [](\A m \in 1..Len(messages) :
             messages[m].message \in BadNames =>
                /\ Written(m) = {}
                /\ CallbacksFor(m) = <<>>)

\* C18: suggest_log_path with a '~' prefix while HOME is not set builds one
\* message of severity ERROR, does not enter the fatal path, and the process
\* stays alive.
C18_MissingHomeReported ==
    /\ [][\A t \in Threads :
             (/\ last'[t] /= last[t]
              /\ last'[t].op = "suggest_log_path"
              /\ ~last'[t].cond)
             => /\ Len(messages') = Len(messages) + 1
                /\ Built.verbosity = ERROR
                /\ ~InFatal(t)']_vars
    /\ [](\A t \in Threads :
             (last[t].op = "suggest_log_path" /\ ~last[t].cond) => (alive /\ ~InFatal(t)))

\* C19: LOG_IF_F(level, cond, ...) builds exactly one message, of severity
\* level, when cond is true and level is enabled (negative, or not above the
\* threshold), and changes nothing otherwise.
C19_ConditionalAtLevel ==
    [][\A t \in Threads :
          (last'[t] /= last[t] /\ last'[t].op = "LOG_IF_F") =>
             IF last'[t].cond /\ (last'[t].sev < 0 \/ last'[t].sev <= g_verbosity)
             THEN /\ Len(messages') = Len(messages) + 1
                  /\ Built.verbosity = last'[t].sev
                  /\ Built.thr = t
             ELSE UNCHANGED <<messages, stack, trace, s_mutex>>]_vars

\* C20: prettifying a prettified text changes nothing:
\* prettify(prettify(x)) = prettify(x) for every text x.
C20_PrettifyIdempotent == text.done => text.twice = text.once

\* the level column the preamble of a message of severity v has to show
LevelColumn(v) ==
    CASE v = -3 -> <<"F", "A", "T", "L">>
      [] v = -2 -> <<" ", "E", "R", "R">>
      [] v = -1 -> <<"W", "A", "R", "N">>
      [] v \in 0..9 -> <<" ", " ", " ", DigitChar[v + 1]>>

\* C21: the level column of the preamble of a message is FATL for severity
\* -3, ERR for -2, WARN for -1 and, for a severity from 0 to 9, the number
\* at the right of a field of four characters; the column is four characters
\* wide, and two messages of the same severity show the same column.
C21_LevelColumn ==
    /\ \A m \in 1..Len(messages) :
          messages[m].preamble =>
             /\ messages[m].level = LevelColumn(messages[m].verbosity)
             /\ Len(messages[m].level) = 4
    /\ \A m, n \in 1..Len(messages) :
          (/\ messages[m].preamble
           /\ messages[n].preamble
           /\ messages[m].verbosity = messages[n].verbosity)
          => messages[m].level = messages[n].level

\* C21 witness: messages of severity ERROR, 0 and 9 have been written with
\* their preambles
C21_Witness ==
    \E a, b, c \in 1..Len(messages) :
        /\ messages[a].preamble /\ messages[a].verbosity = ERROR
        /\ messages[b].preamble /\ messages[b].verbosity = 0
        /\ messages[c].preamble /\ messages[c].verbosity = 9
        /\ Written(a) /= {} /\ Written(b) /= {} /\ Written(c) /= {}

\* C22: for any two messages that have both been passed to sink X and to
\* sink Y, X and Y received them in the same order, and that order is the
\* order in which the two messages were written to the streams; with two
\* threads logging and with callbacks that log.
C22_CommonSinkOrder ==
    \A i, j, k, l \in Indices("callback") :
        (/\ trace[i].uid = trace[j].uid
         /\ trace[k].uid = trace[l].uid
         /\ trace[i].msg = trace[k].msg
         /\ trace[j].msg = trace[l].msg
         /\ trace[i].msg /= trace[j].msg)
        => /\ (i < j) <=> (k < l)
           /\ (i < j) <=> (WriteOf(trace[i].msg) < WriteOf(trace[j].msg))

\* C23: once the close hook of an entry has been invoked, the callback of
\* that entry is never invoked again, whatever the close hook logs.
C23_NoCallbackAfterClose ==
    \A c \in Indices("close"), i \in Indices("callback") :
        trace[i].uid = trace[c].uid => i < c

\* C24: a thread inside a log call can always take its next step, the
\* process is not brought down by the call, and a thread that is back from
\* its call does not own the mutex; so every log call returns and releases
\* the mutex, also when a sink reports at ERROR each time it is invoked and
\* is eligible for its own report.
C24_LogCallReturns ==
    \A t \in Threads :
        /\ ~Idle(t) => (alive /\ ENABLED NextReentrant)
        /\ Idle(t) => s_mutex.owner /= t

\* C25: in every log file each header line comes before every message
\* line, whatever another thread logs while add_file runs.
C25_HeaderFirst ==
    \A k \in 1..Len(files) :
        \A i, j \in 1..Len(files[k].lines) :
            (/\ files[k].lines[i].kind = "message"
             /\ files[k].lines[j].kind /= "message")
            => j < i

\* the severities at which a message logged with LOG_F now reaches a sink
\* with this cutoff
Reaching(cutoff) ==
    {v \in Verbosities : ~Filtered(v) /\ Eligible(v, [verbosity |-> cutoff])}

\* C26: the number add_file writes in the "Verbosity level" line of the
\* header is the greatest severity at which a message logged through the
\* macros reaches the file, under the threshold and the cutoff of the call.
C26_HeaderVerbosity ==
    [][\A t \in Threads :
          (At(t, "add_file", "header") /\ stack'[t] /= stack[t]) =>
             \A i \in 1..Len(files'[Top(t).idx].lines) :
                files'[Top(t).idx].lines[i].kind = "Verbosity level" =>
                   /\ Reaching(Top(t).st.verbosity) /= {}
                   /\ files'[Top(t).idx].lines[i].val =
                         SetMax(Reaching(Top(t).st.verbosity))]_vars

\* thread t takes the step that builds the exit message of a scope
BuildsExit(t) == At(t, "~LogScopeRAII", "log") /\ stack'[t] /= stack[t]

\* C27 as stated: the elapsed time of an exit message is the clock at the
\* exit less the entry timestamp and is not negative; and the entry
\* timestamp is the clock when the constructor has emitted the entry message
\* and incremented the depth.
C27_ElapsedSinceEntryDone ==
    [][\A t \in Threads :
          /\ BuildsExit(t) =>
                /\ Built.args[1] = now - Top(t).st
                /\ Built.args[1] >= 0
          /\ Returns(t, "LogScopeRAII", "inc") =>
                scopes'[t][Len(scopes'[t])].start = now]_vars

\* C27 amended: the elapsed time of an exit message is the clock at the
\* exit less the entry timestamp and is not negative; the entry timestamp
\* is the clock when the constructor starts, which is the time the entry
\* message shows and is read before that message is written, so the
\* elapsed time includes the delivery of the entry message.
C27_ElapsedSinceConstruction ==
    [][\A t \in Threads :
          /\ BuildsExit(t) =>
                /\ Built.args[1] = Built.time - messages[Top(t).msg].time
                /\ Built.args[1] >= 0
          /\ (last'[t] /= last[t] /\ last'[t].op = "LogScopeRAII" /\ last'[t].msg /= 0) =>
                /\ stack'[t][1].fn = "LogScopeRAII"
                /\ stack'[t][1].st = now
                /\ Built.time = now
                /\ Written(last'[t].msg) = {}
          /\ Returns(t, "LogScopeRAII", "inc") =>
                /\ scopes'[t][Len(scopes'[t])].start = messages[Top(t).msg].time
                /\ scopes'[t][Len(scopes'[t])].start <= now]_vars

\* C27 witness: a scope was entered, time passed, and its exit message,
\* showing an elapsed time of at least one tick counted from the time the
\* entry message shows, has been written
C27_Witness ==
    \E e, x \in 1..Len(messages) :
        /\ e < x
        /\ messages[e].prefix = "{ "
        /\ messages[x].message = "} %.*f s: %s"
        /\ messages[x].args[1] = messages[x].time - messages[e].time
        /\ messages[x].args[1] >= 1
        /\ Written(x) /= {}

\* the positions of the scopes of t that have incremented the depth
Enabled(t) == {i \in 1..Len(scopes[t]) : scopes[t][i].file}

\* the entry message of the innermost such scope of t
InnermostEntry(t) == messages[scopes[t][SetMax(Enabled(t))].entry]

\* t is delivering the entry message of a scope it is constructing
Entering(t) == ~Idle(t) /\ stack[t][1].fn = "LogScopeRAII"

\* one level more than the indentation ind, up to the cap of 100 levels
OneMore(ind) == Min(ind + 4, 4 * 100)

\* C28 as stated: the indentation of a message is 4 * min(d, 100) for the
\* depth d when it is built; the exit message of a scope has the indentation
\* of its entry message; and every message the thread logs after the entry
\* message of its innermost scope and before its exit message has one level
\* more than the entry message, up to the cap.
C28_IndentByDepth ==
    [][Len(messages') = Len(messages) + 1 =>
          /\ Built.indentation = 4 * Min(s_indentation, 100)
          /\ BuildsExit(Built.thr) =>
                Built.indentation = messages[Top(Built.thr).msg].indentation
          /\ Entering(Built.thr) =>
                Built.indentation = OneMore(messages[stack[Built.thr][1].msg].indentation)
          /\ (~Entering(Built.thr) /\ Enabled(Built.thr) /= {}) =>
                Built.indentation = OneMore(InnermostEntry(Built.thr).indentation)]_vars

\* C28 amended: a message with a preamble has the indentation 4 * min(d, 100)
\* for the depth d when it is built, a message without preamble (raw_log)
\* has none; the exit message of a scope has the indentation of its entry
\* message; a message with a preamble that the thread logs after the
\* constructor of its innermost scope has returned and before that scope's
\* destructor has one level more than the entry message, up to the cap; and
\* a message that a sink logs during the delivery of the entry message has
\* the indentation of the entry message.
C28_IndentOfPreambled ==
    [][Len(messages') = Len(messages) + 1 =>
          /\ Built.preamble => Built.indentation = 4 * Min(s_indentation, 100)
          /\ ~Built.preamble => Built.indentation = 0
          /\ BuildsExit(Built.thr) =>
                Built.indentation = messages[Top(Built.thr).msg].indentation
          /\ Entering(Built.thr) =>
                Built.indentation = messages[stack[Built.thr][1].msg].indentation
          /\ (~Entering(Built.thr) /\ Enabled(Built.thr) /= {} /\ Built.preamble) =>
                Built.indentation = OneMore(InnermostEntry(Built.thr).indentation)]_vars

\* C28 witness: at the cap, a scope whose entry message is indented by 100
\* levels, a LOG_F message inside it with the same indentation, and the
\* scope's exit message, all written
C28_Witness ==
    \E e, m, x \in 1..Len(messages) :
        /\ e < m /\ m < x
        /\ messages[e].prefix = "{ "
        /\ messages[e].indentation = 400
        /\ messages[m].message = "user"
        /\ messages[m].prefix = ""
        /\ messages[m].indentation = 400
        /\ messages[x].message = "} %.*f s: %s"
        /\ messages[x].indentation = 400
        /\ Written(e) /= {} /\ Written(m) /= {} /\ Written(x) /= {}

\* thread t takes the step that builds the entry message of a scope
BuildsEntry(t) ==
    /\ last'[t] /= last[t]
    /\ last'[t].op = "LogScopeRAII"
    /\ last'[t].msg /= 0

\* C29 as stated: the entry message of a scope has the prefix "{ " and the
\* label as its body; the exit message has the prefix "} " and a body made
\* of the elapsed seconds and the label.
C29_ScopeMessageFields ==
    [][\A t \in Threads :
          /\ BuildsEntry(t) =>
                /\ Built.prefix = "{ "
                /\ Built.message = stack'[t][1].id
          /\ BuildsExit(t) =>
                /\ Built.prefix = "} "
                /\ Built.args = <<Built.time - messages[Top(t).msg].time,
                                  messages[Top(t).msg].message>>]_vars

\* C29 amended: the entry message of a scope has the prefix "{ " and the
\* content of _name as its body; the exit message has an empty prefix and a
\* body that is "} ", the elapsed seconds, " s: " and the content of _name,
\* the same as the body of the entry message.
C29_ExitPrefixInBody ==
    [][\A t \in Threads :
          /\ BuildsEntry(t) =>
                /\ Built.prefix = "{ "
                /\ Built.message = stack'[t][1].id
                /\ Built.args = <<>>
          /\ BuildsExit(t) =>
                /\ Built.prefix = ""
                /\ Built.message = "} %.*f s: %s"
                /\ Built.args = <<Built.time - messages[Top(t).msg].time,
                                  messages[Top(t).msg].message>>
                /\ messages[Top(t).msg].prefix = "{ "]_vars

\* C29 witness: the entry message and the exit message of a scope have both
\* been passed to a sink
C29_Witness ==
    \E e, x \in 1..Len(messages) :
        /\ e < x
        /\ messages[e].prefix = "{ "
        /\ messages[e].message = "user"
        /\ messages[x].message = "} %.*f s: %s"
        /\ messages[x].args[2] = "user"
        /\ CallbacksFor(e) /= <<>>
        /\ CallbacksFor(x) /= <<>>

\* the frame that called the log call which builds a message in this step
Caller == stack'[Built.thr][Len(stack'[Built.thr]) - 1]

\* the step builds a message for log_and_abort, which is at pc afterwards
AbortBuilds(pc) ==
    /\ Len(messages') = Len(messages) + 1
    /\ Len(stack'[Built.thr]) >= 2
    /\ Caller.fn = "log_and_abort"
    /\ Caller.pc = pc

\* C30 as stated: the stack-trace message of log_and_abort has the prefix
\* "Stack trace:\n" and the trace text as body; the failure message has the
\* expression text as prefix and the formatted detail as body.
C30_AbortMessageFields ==
    [][/\ AbortBuilds("fatal") =>
             /\ Built.prefix = "Stack trace:\n"
             /\ Built.args = <<"st">>
       /\ AbortBuilds("handler") =>
             /\ Built.prefix = "expr"
             /\ Built.message = Caller.id]_vars

\* C30 amended: the stack-trace message of log_and_abort, of severity ERROR,
\* has an empty prefix and a body that is "Stack trace:\n" followed by the
\* trace text; the failure message, of severity FATAL, has the expression
\* text as prefix and the formatted detail as body.
C30_TraceInBody ==
    [][/\ AbortBuilds("fatal") =>
             /\ Built.verbosity = ERROR
             /\ Built.prefix = ""
             /\ Built.message = "Stack trace:\n%s"
             /\ Built.args = <<"st">>
             /\ Caller.st
       /\ AbortBuilds("handler") =>
             /\ Built.verbosity = FATAL
             /\ Built.prefix = "expr"
             /\ Built.message = Caller.id
             /\ vasprintf(Caller.id) >= 0]_vars

\* C30 witness: the stack-trace message and the failure message of one
\* log_and_abort have both been passed to a sink
C30_Witness ==
    \E a, b \in 1..Len(messages) :
        /\ a < b
        /\ messages[a].args = <<"st">>
        /\ messages[a].verbosity = ERROR
        /\ messages[b].prefix = "expr"
        /\ messages[b].verbosity = FATAL
        /\ CallbacksFor(a) /= <<>>
        /\ CallbacksFor(b) /= <<>>

\* ------------------------------------------------------------------------
\* C31: for a captured stack of n frames (index 0 innermost) and skip count
\* k, the rendered trace lists exactly the frames k..n-1, one line each, the
\* oldest (n-1) first and frame k last, each numbered i-k; a line with the
\* truncation marker stands before them iff n = 128; and with the default
\* skip neither loguru::stacktrace nor stacktrace_as_stdstring is listed.

\* the positions in the result where a line starts
LineStarts ==
    {p \in 1..Len(capture.result) : p = 1 \/ capture.result[p - 1] = "\n"}

\* the result starts with the marker line
HasMarker ==
    /\ capture.result /= <<>>
    /\ capture.result[1] = "[truncated]"
    /\ Len(capture.result) >= 2 => capture.result[2] = "\n"

\* the positions where the lines of the frames start
FrameStarts == IF HasMarker THEN LineStarts \ {1} ELSE LineStarts

\* the line that starts at p shows frame i of callstack as number i - k
Shows(p, i, k) ==
    /\ p + 2 <= Len(capture.result)
    /\ SubSeq(capture.result, p, p + 2) =
           <<ToString(i - k), " ", capture.callstack[i + 1].addr>>

\* the start of the line after the one that starts at p, 0 when it is the last
NextLine(p) ==
    IF {q \in LineStarts : q > p} = {} THEN 0
    ELSE SetMin({q \in LineStarts : q > p})

C31_RenderedFrames ==
    capture.done =>
        LET n == Len(capture.callstack)
            k == capture.skip + 1
        IN /\ HasMarker <=> n = max_frames
           /\ Cardinality(FrameStarts) = Max(n - k, 0)
           /\ \A i \in k..(n - 1) :
                 \E p \in FrameStarts :
                    /\ Shows(p, i, k)
                    /\ i = n - 1 => p = SetMin(FrameStarts)
                    /\ i > k => NextLine(p) /= 0 /\ Shows(NextLine(p), i - 1, k)
                    /\ i = k => NextLine(p) = 0
           /\ capture.skip = 1 =>
                 \A p \in 1..Len(capture.result) :
                    capture.result[p] \notin
                        {StacktraceFrames[1].addr, StacktraceFrames[2].addr}

\* ------------------------------------------------------------------------
\* C32: for every argument vector, after init / parse_args returns, argv
\* holds argv[0] followed by exactly the arguments that are neither a -v
\* option nor the separate value of one, in their original order; argc is
\* their count; argv[argc] is null; and g_verbosity is the value of the last
\* -v option given ('-v n', '-vn', '-v=n'), unchanged when none is given.

\* the decimal text of n
Decimal(n) == IF n < 0 THEN <<"-">> \o Digits(-n) ELSE Digits(n)

\* str is the text of a number, and the number it is the text of
IsNumeral(str) == \E n \in -99..99 : Decimal(n) = str
NumberOf(str) == CHOOSE n \in -99..99 : Decimal(n) = str

\* arg has one of the forms -v, -vn, -v=n
HasOptionForm(arg) ==
    /\ Len(arg) >= 2
    /\ SubSeq(arg, 1, 2) = <<"-", "v">>
    /\ \/ Len(arg) = 2
       \/ IsNumeral(SubSeq(arg, 3, Len(arg)))
       \/ arg[3] = "=" /\ IsNumeral(SubSeq(arg, 4, Len(arg)))

RECURSIVE IsOptionAt(_, _)
\* given[i] is a -v option: it has the form of one and is not the separate
\* value of the -v before it
IsOptionAt(given, i) ==
    /\ i >= 2
    /\ HasOptionForm(given[i])
    /\ ~(IsOptionAt(given, i - 1) /\ Len(given[i - 1]) = 2)

\* given[i] is the separate value of the -v before it
IsValueAt(given, i) == IsOptionAt(given, i - 1) /\ Len(given[i - 1]) = 2

\* the positions of the arguments that are neither
Others(given) ==
    {i \in 2..Len(given) : ~IsOptionAt(given, i) /\ ~IsValueAt(given, i)}

\* the j-th of a set of positions
Nth(S, j) == CHOOSE i \in S : Cardinality({x \in S : x < i}) = j - 1

\* the text of the value of the option at position i
ValueText(given, i) ==
    IF Len(given[i]) = 2 THEN given[i + 1]
    ELSE IF given[i][3] = "=" THEN SubSeq(given[i], 4, Len(given[i]))
    ELSE SubSeq(given[i], 3, Len(given[i]))

\* init has returned, and nothing was called since
InitReturned == cmdline.pc = "returned" /\ last[1].op = "init"

C32_ArgumentsCompacted ==
    InitReturned =>
        LET given == cmdline.given
            others == Others(given)
            options == {i \in 2..Len(given) : IsOptionAt(given, i)}
        IN /\ cmdline.argc = 1 + Cardinality(others)
           /\ cmdline.argv[1] = given[1]
           /\ \A j \in 1..Cardinality(others) :
                 cmdline.argv[1 + j] = given[Nth(others, j)]
           /\ cmdline.argv[cmdline.argc + 1] = Null
           /\ options = {} => g_verbosity = cmdline.g
           /\ (options /= {} /\ IsNumeral(ValueText(given, SetMax(options)))) =>
                 g_verbosity = NumberOf(ValueText(given, SetMax(options)))

\* init has returned from "a -v 3 a": the value was a separate argument, the
\* argument after it has moved to argv[1], and the threshold has changed
C32_Witness ==
    /\ InitReturned
    /\ cmdline.given = <<(<<"a">>), (<<"-", "v">>), (<<"3">>), (<<"a">>)>>
    /\ cmdline.argc = 2
    /\ cmdline.argv[2] = <<"a">>
    /\ cmdline.argv[3] = Null
    /\ g_verbosity = 3
    /\ cmdline.g /= 3

\* ------------------------------------------------------------------------
\* C33: prettify_stacktrace terminates: for every pair of REPLACE_LIST the
\* while loop that replaces p.first until it is not found makes finitely
\* many replacements.  The text is all the loop changes and all its test
\* reads, so a replacement that leaves the text as it was is followed by the
\* same replacement for ever: in a loop that finishes, every replacement
\* changes the text.
C33_ReplaceLoopFinishes ==
    (InReplaceList /\ text.replaced) => text.output /= text.before

=============================================================================
